---- MODULE Spec2Model ----
(***************************************************************************)
(* PhantomShield: behavioural risk scoring and one-way decoy routing.      *)
(*                                                                         *)
(* Conventions of the model                                                *)
(*   - risk scores and risk deltas are Python floats in [0.0, 1.0]; the    *)
(*     model keeps them as integer hundredths (0.60 is 60, 0.01 is 1);     *)
(*   - datetimes are whole minutes on the integer clock `now`;             *)
(*   - feature values are exact rationals <<numerator, denominator>> with  *)
(*     a positive denominator, compared by cross multiplication;           *)
(*   - request timestamps are whole ticks of 1/TicksPerSecond seconds.     *)
(***************************************************************************)
EXTENDS Integers, Sequences, FiniteSets, TLC

VARIABLES
    session,      \* the SessionState owned by the SessionManager
    now,          \* datetime.utcnow(), in minutes
    last_op,      \* the SessionManager operation that ran last, and its policy decision
    policy_args,  \* arguments of a direct evaluate_policy call
    policy_out,   \* the PolicyDecision that call returned
    snapshot,     \* a behaviour snapshot handed to BehaviorFeatureExtractor.extract
    features,     \* a feature map: the result of extract, the argument of evaluate
    risk_delta,   \* the result of BehaviorRuleEngine.evaluate
    stage,        \* how far the extract / evaluate pipeline has run
    decay_args,   \* arguments of a direct apply_risk_decay call, and its utcnow()
    decay_out,    \* what that call returned
    canary_args,  \* arguments of a detect_canary_hit call
    canary_out,   \* what that call returned
    threads,      \* the requests running SessionManager methods on the session
    conc_start,   \* the session as it was before those requests started
    clock,        \* time.time(), in seconds
    _session_behaviors,  \* BehaviorCollector._session_behaviors: session id -> SessionBehavior
    _cleanup_lock,       \* BehaviorCollector._cleanup_lock: the task holding it, or 0
    tasks,        \* the coroutines of the collector on the event loop
    running,      \* the task the event loop is running, or 0
    created,      \* per session id, how many SessionBehavior objects were created
    calls,        \* per session id, the collect_request calls started on the current object
    remaining,    \* how many more collect_request calls the model starts
    sessions,     \* the SessionState of each session id, each with its own SessionManager
    thresholds,   \* the configured LOW_RISK_THRESHOLD and HIGH_RISK_THRESHOLD
    startup,      \* whether the application has started
    record_args,  \* a SessionBehavior and the arguments of one collect_request on it
    record_out,   \* the SessionBehavior that collect_request left
    decay_start,  \* the risk_score of the session when it went idle
    decay_calls   \* the apply_decay calls on the session since then

vars == <<session, now, last_op, policy_args, policy_out,
          snapshot, features, risk_delta, stage,
          decay_args, decay_out, canary_args, canary_out, threads, conc_start,
          clock, _session_behaviors, _cleanup_lock, tasks, running, created, calls,
          remaining, sessions, thresholds, startup, record_args, record_out,
          decay_start, decay_calls>>

sessionVars == <<session, now, last_op>>
policyVars == <<policy_args, policy_out>>
pipelineVars == <<snapshot, features, risk_delta, stage>>
decayVars == <<decay_args, decay_out>>
canaryVars == <<canary_args, canary_out>>
concVars == <<threads, conc_start>>
collectorVars == <<clock, _session_behaviors, _cleanup_lock, tasks, running,
                   created, calls, remaining>>
startupVars == <<thresholds, startup>>
recordVars == <<record_args, record_out>>
idleVars == <<decay_start, decay_calls>>
laterVars == <<collectorVars, sessions, startupVars, recordVars, idleVars>>
otherVars == <<policyVars, pipelineVars, decayVars, canaryVars, concVars, laterVars>>

(***************************************************************************)
(* Bounds of the model.                                                    *)
(***************************************************************************)
\* the clock stops after MaxTime minutes
MaxTime == 3

\* amounts passed to increase_risk / decrease_risk, in hundredths
Amounts == {-5, 0, 1, 25, 100}

\* reasons passed to increase_risk by callers other than the canary impact; "" is
\* the falsy reason (None or the empty string)
Reasons == {"", "behavior_rules"}

Min(a, b) == IF a <= b THEN a ELSE b
Max(a, b) == IF a >= b THEN a ELSE b

(***************************************************************************)
(* app/risk/thresholds.py, app/policy/rules.py                             *)
(***************************************************************************)
LOW_RISK_THRESHOLD == 30
HIGH_RISK_THRESHOLD == 60
ONE_WAY_ESCALATION == TRUE

Routes == {"real", "decoy"}

(***************************************************************************)
(* app/session/decay.py                                                    *)
(***************************************************************************)
DECAY_GRACE_PERIOD == 2
DECAY_STEP == 1
MAX_DECAY_PER_CYCLE == 3
MIN_RISK_FLOOR == 5

\* mutant: the floor is forgotten
apply_risk_decay_no_floor(current_risk, last_activity_at, t) ==
    IF t - last_activity_at < DECAY_GRACE_PERIOD
    THEN current_risk
    ELSE current_risk - Min(MAX_DECAY_PER_CYCLE, DECAY_STEP)

\* mutant: the larger of step and cap is subtracted
apply_risk_decay_max_step(current_risk, last_activity_at, t) ==
    IF t - last_activity_at < DECAY_GRACE_PERIOD
    THEN current_risk
    ELSE Max(MIN_RISK_FLOOR, current_risk - Max(MAX_DECAY_PER_CYCLE, DECAY_STEP))

\* apply_risk_decay(current_risk, last_activity_at), with t the value utcnow() returns
apply_risk_decay(current_risk, last_activity_at, t) ==
    IF t - last_activity_at < DECAY_GRACE_PERIOD
    THEN current_risk
    ELSE LET decay_amount == Min(MAX_DECAY_PER_CYCLE, DECAY_STEP)
         IN  Max(MIN_RISK_FLOOR, current_risk - decay_amount)

(***************************************************************************)
(* app/policy/engine.py                                                    *)
(***************************************************************************)
PolicyDecision(route, reason) == [route |-> route, reason |-> reason]

\* no decision was taken
NoDecision == [route |-> "none", reason |-> "none"]

\* mutant: the high threshold is exclusive
evaluate_policy_strict(risk_score, current_route) ==
    IF ONE_WAY_ESCALATION /\ current_route = "decoy"
    THEN PolicyDecision("decoy", "one_way_escalation_lock")
    ELSE IF risk_score > HIGH_RISK_THRESHOLD
    THEN PolicyDecision("decoy", "risk_above_high_threshold")
    ELSE PolicyDecision("real", "risk_below_threshold")

\* mutant: the risk rule is tried before the lock
evaluate_policy_risk_first(risk_score, current_route) ==
    IF risk_score >= HIGH_RISK_THRESHOLD
    THEN PolicyDecision("decoy", "risk_above_high_threshold")
    ELSE IF ONE_WAY_ESCALATION /\ current_route = "decoy"
    THEN PolicyDecision("decoy", "one_way_escalation_lock")
    ELSE PolicyDecision("real", "risk_below_threshold")

evaluate_policy(risk_score, current_route) ==
    IF ONE_WAY_ESCALATION /\ current_route = "decoy"
    THEN PolicyDecision("decoy", "one_way_escalation_lock")
    ELSE IF risk_score >= HIGH_RISK_THRESHOLD
    THEN PolicyDecision("decoy", "risk_above_high_threshold")
    ELSE PolicyDecision("real", "risk_below_threshold")

(***************************************************************************)
(* app/canary/defnitions.py                                                *)
(***************************************************************************)
CANARY_ACTIONS == <<
    [name |-> "hidden_export_endpoint", risk_impact |-> 35,
     paths |-> <<"/api/v1/export", "/api/v1/export-summary">>],
    [name |-> "privilege_probe", risk_impact |-> 40,
     paths |-> <<"/api/v1/admin", "/api/v1/roles">>],
    [name |-> "deep_pagination_probe", risk_impact |-> 25,
     paths |-> <<"/api/v1/data">>] >>

\* f"canary_{canary.name}"
CanaryReason(name) ==
    CASE name = "hidden_export_endpoint" -> "canary_hidden_export_endpoint"
      [] name = "privilege_probe" -> "canary_privilege_probe"
      [] name = "deep_pagination_probe" -> "canary_deep_pagination_probe"

(***************************************************************************)
(* app/canary/detector.py                                                  *)
(***************************************************************************)
\* the None detect_canary_hit returns when nothing is triggered
NoCanary == [name |-> "None", risk_impact |-> 0, paths |-> <<>>]

\* x in list
InList(x, list) == \E i \in 1..Len(list) : list[i] = x

\* int(page) for the query strings of the model: leading and trailing blanks are
\* stripped, a sign is accepted, anything else raises ValueError (ok is FALSE)
int(page) ==
    CASE page = "0" -> [ok |-> TRUE, value |-> 0]
      [] page = "100" -> [ok |-> TRUE, value |-> 100]
      [] page = "101" -> [ok |-> TRUE, value |-> 101]
      [] page = " 101 " -> [ok |-> TRUE, value |-> 101]
      [] page = "1000" -> [ok |-> TRUE, value |-> 1000]
      [] page = "-101" -> [ok |-> TRUE, value |-> 0 - 101]
      [] OTHER -> [ok |-> FALSE, value |-> 0]

\* next(c for c in CANARY_ACTIONS if c.name == name)
CanaryNamed(name) ==
    CANARY_ACTIONS[CHOOSE i \in 1..Len(CANARY_ACTIONS) :
                      /\ CANARY_ACTIONS[i].name = name
                      /\ \A j \in 1..(i - 1) : CANARY_ACTIONS[j].name # name]

\* mutant: page 100 already counts as deep pagination
detect_canary_hit_inclusive(request_path, query_params) ==
    LET hits == {i \in 1..Len(CANARY_ACTIONS) : InList(request_path, CANARY_ACTIONS[i].paths)}
    IN  IF hits # {}
        THEN CANARY_ACTIONS[CHOOSE i \in hits : \A j \in hits : i <= j]
        ELSE IF "page" \in DOMAIN query_params /\ query_params.page # ""
                /\ int(query_params.page).ok /\ int(query_params.page).value >= 100
        THEN CanaryNamed("deep_pagination_probe")
        ELSE NoCanary

\* detect_canary_hit(request_path, query_params); query_params.get("page") is None
\* when the key is missing, and None and "" are both falsy
detect_canary_hit(request_path, query_params) ==
    LET hits == {i \in 1..Len(CANARY_ACTIONS) : InList(request_path, CANARY_ACTIONS[i].paths)}
    IN  IF hits # {}
        THEN CANARY_ACTIONS[CHOOSE i \in hits : \A j \in hits : i <= j]
        ELSE IF "page" \in DOMAIN query_params /\ query_params.page # ""
        THEN LET parsed == int(query_params.page)
             IN  IF parsed.ok
                 THEN IF parsed.value > 100
                      THEN CanaryNamed("deep_pagination_probe")
                      ELSE NoCanary
                 ELSE NoCanary
        ELSE NoCanary

(***************************************************************************)
(* app/session/models.py, app/session/manager.py                           *)
(***************************************************************************)
\* the upper clamp of increase_risk
MAX_RISK == 100

\* f"risk_{reason}"
RiskFlag(reason) ==
    CASE reason = "behavior_rules" -> "risk_behavior_rules"
      [] reason = "canary_hidden_export_endpoint" -> "risk_canary_hidden_export_endpoint"
      [] reason = "canary_privilege_probe" -> "risk_canary_privilege_probe"
      [] reason = "canary_deep_pagination_probe" -> "risk_canary_deep_pagination_probe"

\* mutant: setting a flag starts a new dict
SetFlag_replace(flags, key) == [k \in {key} |-> TRUE]

\* flags[key] = True
SetFlag(flags, key) ==
    [k \in DOMAIN flags \cup {key} |-> IF k = key THEN TRUE ELSE flags[k]]

\* flags.get(key) is True
FlagSet(flags, key) == key \in DOMAIN flags /\ flags[key]

\* SessionState(session_id, user_id) built at time t
SessionState(t) ==
    [routing_state |-> "real",
     risk_score |-> 0,
     flags |-> <<>>,
     created_at |-> t,
     last_activity_at |-> t]

record_activity(s, t) == [s EXCEPT !.last_activity_at = t]

\* mutant: the result is not clamped to 1.0
increase_risk_unclamped(s, amount, reason) ==
    IF amount <= 0 THEN s
    ELSE [s EXCEPT !.risk_score = s.risk_score + amount,
                   !.flags = IF reason # "" THEN SetFlag(s.flags, RiskFlag(reason))
                             ELSE s.flags]

\* mutant: the manager routes to the decoy as soon as the score is high
increase_risk_escalates(s, amount, reason) ==
    IF amount <= 0 THEN s
    ELSE LET r == Min(MAX_RISK, s.risk_score + amount)
         IN  [s EXCEPT !.risk_score = r,
                       !.routing_state = IF r >= HIGH_RISK_THRESHOLD THEN "decoy" ELSE @,
                       !.flags = IF reason # "" THEN SetFlag(s.flags, RiskFlag(reason))
                                 ELSE s.flags]

\* mutant: the amount replaces the score
increase_risk_overwrite(s, amount, reason) ==
    IF amount <= 0 THEN s
    ELSE [s EXCEPT !.risk_score = Min(MAX_RISK, amount),
                   !.flags = IF reason # "" THEN SetFlag(s.flags, RiskFlag(reason))
                             ELSE s.flags]

\* mutant: the reason flag is recorded before the amount is looked at
increase_risk_flag_first(s, amount, reason) ==
    LET flagged == IF reason # "" THEN SetFlag(s.flags, RiskFlag(reason)) ELSE s.flags
    IN  IF amount <= 0 THEN [s EXCEPT !.flags = flagged]
        ELSE [s EXCEPT !.risk_score = Min(MAX_RISK, s.risk_score + amount),
                       !.flags = flagged]

increase_risk(s, amount, reason) ==
    IF amount <= 0 THEN s
    ELSE [s EXCEPT !.risk_score = Min(MAX_RISK, s.risk_score + amount),
                   !.flags = IF reason # "" THEN SetFlag(s.flags, RiskFlag(reason))
                             ELSE s.flags]

\* mutant: the decrease is floored at the decay floor
decrease_risk_decay_floor(s, amount) ==
    IF amount <= 0 THEN s
    ELSE [s EXCEPT !.risk_score = Max(MIN_RISK_FLOOR, s.risk_score - amount)]

\* mutant: the decrease is floored at the high threshold
decrease_risk_high_floor(s, amount) ==
    IF amount <= 0 THEN s
    ELSE [s EXCEPT !.risk_score = Max(HIGH_RISK_THRESHOLD, s.risk_score - amount)]

decrease_risk(s, amount) ==
    IF amount <= 0 THEN s
    ELSE [s EXCEPT !.risk_score = Max(LOW_RISK_THRESHOLD, s.risk_score - amount)]

apply_decay(s, t) ==
    [s EXCEPT !.risk_score = apply_risk_decay(s.risk_score, s.last_activity_at, t)]

\* the decision evaluate_routing asks the policy engine for
routing_decision(s) == evaluate_policy(s.risk_score, s.routing_state)

\* mutant: the decision's route is applied whatever it is, and the policy is asked
\* as for a session on the real backend
evaluate_routing_toggle(s) ==
    LET decision == evaluate_policy(s.risk_score, "real")
    IN  [s EXCEPT !.routing_state = decision.route,
                  !.flags = IF decision.route = "decoy"
                            THEN SetFlag(s.flags, "routed_to_decoy") ELSE s.flags]

\* mutant: the escalation is not written to the flags
evaluate_routing_unflagged(s) ==
    LET decision == routing_decision(s)
    IN  IF decision.route = "decoy" /\ s.routing_state # "decoy"
        THEN [s EXCEPT !.routing_state = "decoy"]
        ELSE s

evaluate_routing(s) ==
    LET decision == routing_decision(s)
    IN  IF decision.route = "decoy" /\ s.routing_state # "decoy"
        THEN [s EXCEPT !.routing_state = "decoy",
                       !.flags = SetFlag(s.flags, "routed_to_decoy")]
        ELSE s

\* record_activity(); apply_decay(); evaluate_routing(): every utcnow() of one
\* cycle reads the same minute t
process_cycle(s, t) ==
    evaluate_routing(apply_decay(record_activity(s, t), t))

\* mutant: the reason is not passed on
apply_canary_impact_no_reason(s, canary) ==
    increase_risk(s, canary.risk_impact, "")

\* apply_canary_impact(session_manager, canary)
apply_canary_impact(s, canary) ==
    increase_risk(s, canary.risk_impact, CanaryReason(canary.name))

(***************************************************************************)
(* Exact rationals <<n, d>>, d > 0, standing for the floats of the         *)
(* behaviour features.                                                     *)
(***************************************************************************)
RatGt(a, b) == a[1] * b[2] > b[1] * a[2]
RatLt(a, b) == a[1] * b[2] < b[1] * a[2]
RatEq(a, b) == a[1] * b[2] = b[1] * a[2]
Zero == <<0, 1>>

\* request timestamps are whole ticks of 1/24 s
TicksPerSecond == 4 * 6

\* dict.get(key, default)
Get(d, key, default) == IF key \in DOMAIN d THEN d[key] ELSE default

RECURSIVE SumSeq(_)
SumSeq(s) == IF s = <<>> THEN 0 ELSE Head(s) + SumSeq(Tail(s))

RECURSIVE SumSquares(_)
SumSquares(s) == IF s = <<>> THEN 0 ELSE Head(s) * Head(s) + SumSquares(Tail(s))

RECURSIVE MaxSeq(_)
MaxSeq(s) == IF Len(s) = 1 THEN Head(s) ELSE Max(Head(s), MaxSeq(Tail(s)))

RECURSIVE MinSeq(_)
MinSeq(s) == IF Len(s) = 1 THEN Head(s) ELSE Min(Head(s), MinSeq(Tail(s)))

RECURSIVE Insert(_, _)
Insert(x, s) ==
    IF s = <<>> THEN <<x>>
    ELSE IF x <= Head(s) THEN <<x>> \o s
    ELSE <<Head(s)>> \o Insert(x, Tail(s))

\* sorted(timestamps)
RECURSIVE sorted(_)
sorted(s) == IF s = <<>> THEN <<>> ELSE Insert(Head(s), sorted(Tail(s)))

(***************************************************************************)
(* app/behavior/features.py                                                *)
(***************************************************************************)
\* the epsilon 1e-6 of the rate, as its reciprocal
EPSILON_INVERSE == 1000000

\* mutant: the rate is computed as soon as one timestamp exists
_extract_volume_features_one_sample(snap) ==
    LET total_requests == Get(snap, "total_requests", 0)
        timestamps == Get(snap, "request_timestamps", <<>>)
        duration == MaxSeq(timestamps) - MinSeq(timestamps)
    IN  [total_requests |-> <<total_requests, 1>>,
         requests_per_second |->
            IF Len(timestamps) < 1 THEN Zero
            ELSE IF duration * EPSILON_INVERSE > TicksPerSecond
            THEN <<total_requests * TicksPerSecond, duration>>
            ELSE <<total_requests * EPSILON_INVERSE, 1>>]

_extract_volume_features(snap) ==
    LET total_requests == Get(snap, "total_requests", 0)
        timestamps == Get(snap, "request_timestamps", <<>>)
        duration == MaxSeq(timestamps) - MinSeq(timestamps)
    IN  [total_requests |-> <<total_requests, 1>>,
         requests_per_second |->
            IF Len(timestamps) < 2 THEN Zero
            ELSE IF duration * EPSILON_INVERSE > TicksPerSecond
            THEN <<total_requests * TicksPerSecond, duration>>
            ELSE <<total_requests * EPSILON_INVERSE, 1>>]

\* statistics.variance(intervals): the sample variance, in seconds squared
stat_variance(intervals) ==
    LET n == Len(intervals)
        total == SumSeq(intervals)
    IN  <<n * SumSquares(intervals) - total * total,
          n * (n - 1) * TicksPerSecond * TicksPerSecond>>

_extract_timing_features(snap) ==
    LET timestamps == Get(snap, "request_timestamps", <<>>)
    IN  IF Len(timestamps) < 2
        THEN [session_duration |-> Zero, interval_mean |-> Zero,
              interval_variance |-> Zero]
        ELSE LET sorted_timestamps == sorted(timestamps)
                 duration == sorted_timestamps[Len(sorted_timestamps)]
                                - sorted_timestamps[1]
                 intervals == [i \in 1..(Len(sorted_timestamps) - 1) |->
                                 sorted_timestamps[i + 1] - sorted_timestamps[i]]
             IN  [session_duration |-> <<duration, TicksPerSecond>>,
                  interval_mean |->
                      <<SumSeq(intervals), Len(intervals) * TicksPerSecond>>,
                  interval_variance |->
                      IF Len(intervals) > 1 THEN stat_variance(intervals) ELSE Zero]

\* mutant: a zero total is replaced by one instead of short-circuiting the ratios
_extract_behavioral_ratios_unguarded(snap) ==
    LET total_requests == Max(1, Get(snap, "total_requests", 0))
    IN  [error_rate |-> <<Get(snap, "error_count", 0), total_requests>>,
         sensitive_ratio |-> <<Get(snap, "sensitive_route_hits", 0), total_requests>>,
         route_diversity |-> <<Get(snap, "unique_route_count", 0), total_requests>>]

_extract_behavioral_ratios(snap) ==
    LET total_requests == Get(snap, "total_requests", 0)
    IN  [error_rate |->
            IF total_requests > 0
            THEN <<Get(snap, "error_count", 0), total_requests>> ELSE Zero,
         sensitive_ratio |->
            IF total_requests > 0
            THEN <<Get(snap, "sensitive_route_hits", 0), total_requests>> ELSE Zero,
         route_diversity |->
            IF total_requests > 0
            THEN <<Get(snap, "unique_route_count", 0), total_requests>> ELSE Zero]

extract(snap) ==
    IF DOMAIN snap = {} THEN <<>>
    ELSE _extract_volume_features(snap)
            @@ _extract_timing_features(snap)
            @@ _extract_behavioral_ratios(snap)

(***************************************************************************)
(* app/behavior/rules.py                                                   *)
(***************************************************************************)
REQUEST_RATE_LOW_THRESHOLD == <<8, 1>>
REQUEST_RATE_HIGH_THRESHOLD == <<20, 1>>
REQUEST_RATE_LOW_RISK == 10
REQUEST_RATE_HIGH_RISK == 20
ERROR_RATE_THRESHOLD == <<3, 10>>
ERROR_RATE_RISK == 15
SENSITIVE_RATIO_THRESHOLD == <<2, 10>>
SENSITIVE_RATIO_RISK == 15
ROUTE_DIVERSITY_THRESHOLD == <<9, 10>>
ENUMERATION_REQUEST_THRESHOLD == <<30, 1>>
ENUMERATION_RISK == 15
INTERVAL_VARIANCE_THRESHOLD == <<1, 1000>>
AUTOMATION_REQUEST_THRESHOLD == <<15, 1>>
AUTOMATION_RISK == 10
MAX_RISK_DELTA == 50

\* mutant: both rate thresholds are inclusive
_evaluate_request_rate_inclusive(f) ==
    LET requests_per_second == Get(f, "requests_per_second", Zero)
    IN  IF ~RatLt(requests_per_second, REQUEST_RATE_HIGH_THRESHOLD)
        THEN REQUEST_RATE_HIGH_RISK
        ELSE IF ~RatLt(requests_per_second, REQUEST_RATE_LOW_THRESHOLD)
        THEN REQUEST_RATE_LOW_RISK
        ELSE 0

_evaluate_request_rate(f) ==
    LET requests_per_second == Get(f, "requests_per_second", Zero)
    IN  IF RatGt(requests_per_second, REQUEST_RATE_HIGH_THRESHOLD)
        THEN REQUEST_RATE_HIGH_RISK
        ELSE IF RatGt(requests_per_second, REQUEST_RATE_LOW_THRESHOLD)
        THEN REQUEST_RATE_LOW_RISK
        ELSE 0

_evaluate_error_rate(f) ==
    IF RatGt(Get(f, "error_rate", Zero), ERROR_RATE_THRESHOLD)
    THEN ERROR_RATE_RISK ELSE 0

_evaluate_sensitive_route_probing(f) ==
    IF RatGt(Get(f, "sensitive_ratio", Zero), SENSITIVE_RATIO_THRESHOLD)
    THEN SENSITIVE_RATIO_RISK ELSE 0

_evaluate_enumeration_behavior(f) ==
    IF /\ RatGt(Get(f, "route_diversity", Zero), ROUTE_DIVERSITY_THRESHOLD)
       /\ RatGt(Get(f, "total_requests", Zero), ENUMERATION_REQUEST_THRESHOLD)
    THEN ENUMERATION_RISK ELSE 0

\* mutant: a variance of exactly 0 is not counted as automation
_evaluate_automation_pattern_nonzero(f) ==
    IF /\ RatGt(Get(f, "interval_variance", Zero), Zero)
       /\ RatLt(Get(f, "interval_variance", Zero), INTERVAL_VARIANCE_THRESHOLD)
       /\ RatGt(Get(f, "total_requests", Zero), AUTOMATION_REQUEST_THRESHOLD)
    THEN AUTOMATION_RISK ELSE 0

_evaluate_automation_pattern(f) ==
    IF /\ RatLt(Get(f, "interval_variance", Zero), INTERVAL_VARIANCE_THRESHOLD)
       /\ RatGt(Get(f, "total_requests", Zero), AUTOMATION_REQUEST_THRESHOLD)
    THEN AUTOMATION_RISK ELSE 0

\* mutant: the rules are chained with elif, so only the first that fires contributes
evaluate_first_match(f) ==
    IF DOMAIN f = {} THEN 0
    ELSE IF _evaluate_request_rate(f) > 0 THEN _evaluate_request_rate(f)
    ELSE IF _evaluate_error_rate(f) > 0 THEN _evaluate_error_rate(f)
    ELSE IF _evaluate_sensitive_route_probing(f) > 0
    THEN _evaluate_sensitive_route_probing(f)
    ELSE IF _evaluate_enumeration_behavior(f) > 0
    THEN _evaluate_enumeration_behavior(f)
    ELSE _evaluate_automation_pattern(f)

\* mutant: the sum of the rules is returned without the cap
evaluate_uncapped(f) ==
    IF DOMAIN f = {} THEN 0
    ELSE _evaluate_request_rate(f) + _evaluate_error_rate(f)
            + _evaluate_sensitive_route_probing(f)
            + _evaluate_enumeration_behavior(f)
            + _evaluate_automation_pattern(f)

evaluate(f) ==
    IF DOMAIN f = {} THEN 0
    ELSE LET risk_delta_1 == 0 + _evaluate_request_rate(f)
             risk_delta_2 == risk_delta_1 + _evaluate_error_rate(f)
             risk_delta_3 == risk_delta_2 + _evaluate_sensitive_route_probing(f)
             risk_delta_4 == risk_delta_3 + _evaluate_enumeration_behavior(f)
             risk_delta_5 == risk_delta_4 + _evaluate_automation_pattern(f)
         IN  Min(risk_delta_5, MAX_RISK_DELTA)

(***************************************************************************)
(* The session manager as a state machine: one action per operation.       *)
(***************************************************************************)
\* the arguments of the last call: amount and reason as increase_risk /
\* decrease_risk received them, canary the name of the canary applied
Args(amount, reason, canary) == [amount |-> amount, reason |-> reason, canary |-> canary]

NoArgs == Args(0, "", "")

Op(name, args, decision) == [op |-> name, args |-> args, decision |-> decision]

SessionInit ==
    /\ now = 0
    /\ session = SessionState(0)
    /\ last_op = Op("init", NoArgs, NoDecision)

\* time passes
Tick ==
    /\ now < MaxTime
    /\ now' = now + 1
    /\ last_op' = Op("tick", NoArgs, NoDecision)
    /\ UNCHANGED <<session, otherVars>>

RecordActivity ==
    /\ session' = record_activity(session, now)
    /\ last_op' = Op("record_activity", NoArgs, NoDecision)
    /\ UNCHANGED <<now, otherVars>>

IncreaseRisk ==
    \E amount \in Amounts, reason \in Reasons :
        /\ session' = increase_risk(session, amount, reason)
        /\ last_op' = Op("increase_risk", Args(amount, reason, ""), NoDecision)
        /\ UNCHANGED <<now, otherVars>>

DecreaseRisk ==
    \E amount \in Amounts :
        /\ session' = decrease_risk(session, amount)
        /\ last_op' = Op("decrease_risk", Args(amount, "", ""), NoDecision)
        /\ UNCHANGED <<now, otherVars>>

ApplyDecay ==
    /\ session' = apply_decay(session, now)
    /\ last_op' = Op("apply_decay", NoArgs, NoDecision)
    /\ UNCHANGED <<now, otherVars>>

EvaluateRouting ==
    /\ session' = evaluate_routing(session)
    /\ last_op' = Op("evaluate_routing", NoArgs, routing_decision(session))
    /\ UNCHANGED <<now, otherVars>>

ProcessCycle ==
    /\ session' = process_cycle(session, now)
    /\ last_op' = Op("process_cycle", NoArgs,
                     routing_decision(apply_decay(record_activity(session, now), now)))
    /\ UNCHANGED <<now, otherVars>>

ApplyCanaryImpact ==
    \E i \in 1..Len(CANARY_ACTIONS) :
        /\ session' = apply_canary_impact(session, CANARY_ACTIONS[i])
        /\ last_op' = Op("apply_canary_impact",
                        Args(CANARY_ACTIONS[i].risk_impact,
                             CanaryReason(CANARY_ACTIONS[i].name),
                             CANARY_ACTIONS[i].name),
                        NoDecision)
        /\ UNCHANGED <<now, otherVars>>

(***************************************************************************)
(* Direct calls of the pure policy function.                               *)
(***************************************************************************)
PolicyIdle ==
    /\ policy_args = [risk_score |-> 0, current_route |-> "real"]
    /\ policy_out = NoDecision

PolicyInit ==
    /\ policy_args \in [risk_score : 0..MAX_RISK, current_route : Routes]
    /\ policy_out = NoDecision

EvaluatePolicy ==
    /\ policy_out = NoDecision
    /\ policy_out' = evaluate_policy(policy_args.risk_score, policy_args.current_route)
    /\ UNCHANGED <<policy_args, sessionVars, pipelineVars, decayVars, canaryVars, concVars, laterVars>>

(***************************************************************************)
(* The extract / evaluate pipeline on bounded inputs.                      *)
(***************************************************************************)
\* a key the feature map does not hold
Absent == <<>>

RateValues == {Zero, <<8, 1>>, <<9, 1>>, <<20, 1>>, <<21, 1>>}
ErrorRateValues == {Zero, <<3, 10>>, <<31, 100>>}
SensitiveRatioValues == {Zero, <<1, 5>>, <<21, 100>>}
RouteDiversityValues == {<<9, 10>>, <<91, 100>>, <<1, 1>>}
IntervalVarianceValues == {Zero, <<9, 10000>>, <<1, 1000>>}
TotalRequestsValues == {Zero, <<15, 1>>, <<16, 1>>, <<30, 1>>, <<31, 1>>}

\* the feature map holding the keys whose value is not Absent
FeatureMap(rps, er, sr, rd, iv, tr) ==
    LET all == [requests_per_second |-> rps, error_rate |-> er,
                sensitive_ratio |-> sr, route_diversity |-> rd,
                interval_variance |-> iv, total_requests |-> tr]
    IN  [k \in {x \in DOMAIN all : all[x] # Absent} |-> all[k]]

\* the longest run of simultaneous requests at the start of a scenario snapshot
MaxBurst == 6

\* the 25 timestamps of Scenarios A and B
ScenarioPoints == TicksPerSecond + 1

\* ScenarioPoints timestamps spanning exactly 1.0 s: the first m + 1 at tick 0, the
\* others one tick apart up to tick 24; m = 0 is the evenly spaced sequence
ScenarioTimestamps(m) ==
    [i \in 1..ScenarioPoints |-> IF i <= m + 1 THEN 0 ELSE i - 1]

Reverse(s) == [i \in 1..Len(s) |-> s[Len(s) + 1 - i]]

TimestampSeqs ==
    {<<>>, <<7>>, <<7, 7>>, <<0, 24>>, <<5, 0, 3>>}
        \cup {ScenarioTimestamps(m) : m \in 0..MaxBurst}
        \cup {Reverse(ScenarioTimestamps(m)) : m \in 0..MaxBurst}

TotalCounts == {0, 1, 16, 25, 35}
ErrorCounts == {0, 9}
SensitiveCounts == {0, 6}
UniqueCounts == {0, 1, 25, 35}

\* the snapshot of an unknown session
EmptySnapshot == <<>>

Snapshots ==
    {EmptySnapshot} \cup
    [total_requests : TotalCounts, request_timestamps : TimestampSeqs,
     error_count : ErrorCounts, sensitive_route_hits : SensitiveCounts,
     unique_route_count : UniqueCounts]

PipelineIdle ==
    /\ stage = "idle"
    /\ snapshot = EmptySnapshot
    /\ features = <<>>
    /\ risk_delta = 0

\* a feature map is handed to the rule engine
RulesInit ==
    /\ stage = "features"
    /\ snapshot = EmptySnapshot
    /\ risk_delta = 0
    /\ \E rps \in RateValues \cup {Absent}, er \in ErrorRateValues \cup {Absent},
          sr \in SensitiveRatioValues \cup {Absent},
          rd \in RouteDiversityValues \cup {Absent},
          iv \in IntervalVarianceValues \cup {Absent},
          tr \in TotalRequestsValues \cup {Absent} :
            features = FeatureMap(rps, er, sr, rd, iv, tr)

\* a snapshot is handed to the feature extractor
ExtractInit ==
    /\ stage = "snapshot"
    /\ snapshot \in Snapshots
    /\ features = <<>>
    /\ risk_delta = 0

Extract ==
    /\ stage = "snapshot"
    /\ features' = extract(snapshot)
    /\ stage' = "features"
    /\ UNCHANGED <<snapshot, risk_delta, sessionVars, policyVars, decayVars, canaryVars, concVars, laterVars>>

Evaluate ==
    /\ stage = "features"
    /\ risk_delta' = evaluate(features)
    /\ stage' = "delta"
    /\ UNCHANGED <<snapshot, features, sessionVars, policyVars, decayVars, canaryVars, concVars, laterVars>>

(***************************************************************************)
(* Direct calls of the pure decay function.                                *)
(***************************************************************************)
\* the latest minute of a direct apply_risk_decay call
DecayMaxTime == 6

\* the call has not returned
DecayPending == [done |-> FALSE, risk |-> 0]

DecayIdle ==
    /\ decay_args = [current_risk |-> 0, last_activity_at |-> 0, utcnow |-> 0]
    /\ decay_out = DecayPending

DecayInit ==
    /\ decay_args \in {a \in [current_risk : 0..MAX_RISK,
                             last_activity_at : 0..DecayMaxTime,
                             utcnow : 0..DecayMaxTime] :
                          a.last_activity_at <= a.utcnow}
    /\ decay_out = DecayPending

ApplyRiskDecay ==
    /\ ~decay_out.done
    /\ decay_out' = [done |-> TRUE,
                     risk |-> apply_risk_decay(decay_args.current_risk,
                                               decay_args.last_activity_at,
                                               decay_args.utcnow)]
    /\ UNCHANGED <<decay_args, sessionVars, policyVars, pipelineVars, canaryVars, concVars, laterVars>>

(***************************************************************************)
(* Calls of the canary detector on bounded requests.                       *)
(***************************************************************************)
\* the registry paths, and paths that are no exact match of any of them
RequestPaths ==
    {"/api/v1/export", "/api/v1/export-summary", "/api/v1/admin", "/api/v1/roles",
     "/api/v1/data", "/api/v1/users", "/api/v1/export/", "/"}

\* values of the 'page' query parameter
PageValues == {"", "0", "100", "101", " 101 ", "1000", "-101", "abc", "101.5"}

QueryParams == {<<>>} \cup [page : PageValues]

\* the call has not returned
CanaryPending == [done |-> FALSE, canary |-> NoCanary]

CanaryIdle ==
    /\ canary_args = [request_path |-> "/", query_params |-> <<>>]
    /\ canary_out = CanaryPending

CanaryInit ==
    /\ canary_args \in [request_path : RequestPaths, query_params : QueryParams]
    /\ canary_out = CanaryPending

DetectCanaryHit ==
    /\ ~canary_out.done
    /\ canary_out' = [done |-> TRUE,
                      canary |-> detect_canary_hit(canary_args.request_path,
                                                   canary_args.query_params)]
    /\ UNCHANGED <<canary_args, sessionVars, policyVars, pipelineVars, decayVars, concVars, laterVars>>

(***************************************************************************)
(* Requests of one session running SessionManager methods at the same      *)
(* time, each in a worker thread.  No method takes a lock, so the threads  *)
(* interleave between the reads and writes of the session's attributes.    *)
(***************************************************************************)
Threads == {1, 2}

\* the method a request runs, with its arguments
Call(op, amount, reason) == [op |-> op, amount |-> amount, reason |-> reason]

Calls ==
    {Call("increase_risk", 25, "behavior_rules"), Call("increase_risk", 25, ""),
     Call("increase_risk", 0, "behavior_rules"), Call("apply_decay", 0, ""),
     Call("evaluate_routing", 0, ""), Call("process_cycle", 0, "")}

\* the first step of a method
FirstPc(op) ==
    CASE op = "increase_risk" -> "inc_read"
      [] op = "apply_decay" -> "decay_read_risk"
      [] op = "evaluate_routing" -> "route_read_risk"
      [] op = "process_cycle" -> "record"

\* a thread: its call, its position, and its locals (tmp an intermediate risk
\* value, decision the policy decision it obtained)
Thread(call, pc) == [call |-> call, pc |-> pc, tmp |-> 0, decision |-> NoDecision]

\* sessions the requests may find: a fresh session after two increase_risk calls
StartSessions ==
    {increase_risk(increase_risk(SessionState(0), a, ""), b, "") : a, b \in {0, 25}}

ConcIdle ==
    /\ threads = [th \in Threads |-> Thread(Call("none", 0, ""), "done")]
    /\ conc_start = SessionState(0)

ConcInit ==
    /\ now \in {0, DECAY_GRACE_PERIOD}
    /\ session \in StartSessions
    /\ last_op = Op("init", NoArgs, NoDecision)
    /\ conc_start = session
    /\ \E chosen \in [Threads -> Calls] :
          threads = [th \in Threads |-> Thread(chosen[th], FirstPc(chosen[th].op))]

\* thread th moves to pc with the locals given
Goto(th, pc, tmp, decision) ==
    threads' = [threads EXCEPT ![th] = [@ EXCEPT !.pc = pc, !.tmp = tmp,
                                                  !.decision = decision]]

ConcFrame == UNCHANGED <<now, last_op, conc_start, policyVars, pipelineVars,
                         decayVars, canaryVars, laterVars>>

\* record_activity: self.session.last_activity_at = datetime.utcnow()
ConcRecord ==
    \E th \in Threads :
        /\ threads[th].pc = "record"
        /\ session' = record_activity(session, now)
        /\ Goto(th, "decay_read_risk", 0, NoDecision)
        /\ ConcFrame

\* increase_risk: the read of self.session.risk_score
ConcIncRead ==
    \E th \in Threads :
        /\ threads[th].pc = "inc_read"
        /\ IF threads[th].call.amount <= 0
           THEN Goto(th, "done", 0, NoDecision)
           ELSE Goto(th, "inc_write", session.risk_score, NoDecision)
        /\ UNCHANGED session
        /\ ConcFrame

\* increase_risk: self.session.risk_score = min(1.0, <value read> + amount)
ConcIncWrite ==
    \E th \in Threads :
        /\ threads[th].pc = "inc_write"
        /\ session' = [session EXCEPT !.risk_score =
                          Min(MAX_RISK, threads[th].tmp + threads[th].call.amount)]
        /\ Goto(th, IF threads[th].call.reason # "" THEN "inc_flag" ELSE "done",
                0, NoDecision)
        /\ ConcFrame

\* increase_risk: self.session.flags[f"risk_{reason}"] = True
ConcIncFlag ==
    \E th \in Threads :
        /\ threads[th].pc = "inc_flag"
        /\ session' = [session EXCEPT !.flags =
                          SetFlag(@, RiskFlag(threads[th].call.reason))]
        /\ Goto(th, "done", 0, NoDecision)
        /\ ConcFrame

\* apply_decay: the read of self.session.risk_score
ConcDecayReadRisk ==
    \E th \in Threads :
        /\ threads[th].pc = "decay_read_risk"
        /\ Goto(th, "decay_read_activity", session.risk_score, NoDecision)
        /\ UNCHANGED session
        /\ ConcFrame

\* apply_decay: the read of self.session.last_activity_at and the call of
\* apply_risk_decay
ConcDecayReadActivity ==
    \E th \in Threads :
        /\ threads[th].pc = "decay_read_activity"
        /\ Goto(th, "decay_write",
                apply_risk_decay(threads[th].tmp, session.last_activity_at, now),
                NoDecision)
        /\ UNCHANGED session
        /\ ConcFrame

\* apply_decay: self.session.risk_score = new_risk
ConcDecayWrite ==
    \E th \in Threads :
        /\ threads[th].pc = "decay_write"
        /\ session' = [session EXCEPT !.risk_score = threads[th].tmp]
        /\ Goto(th, IF threads[th].call.op = "process_cycle" THEN "route_read_risk"
                    ELSE "done", 0, NoDecision)
        /\ ConcFrame

\* evaluate_routing: the read of self.session.risk_score
ConcRouteReadRisk ==
    \E th \in Threads :
        /\ threads[th].pc = "route_read_risk"
        /\ Goto(th, "route_read_state", session.risk_score, NoDecision)
        /\ UNCHANGED session
        /\ ConcFrame

\* evaluate_routing: the read of self.session.routing_state and the call of
\* evaluate_policy
ConcRouteReadState ==
    \E th \in Threads :
        /\ threads[th].pc = "route_read_state"
        /\ Goto(th, "route_check", 0,
                evaluate_policy(threads[th].tmp, session.routing_state))
        /\ UNCHANGED session
        /\ ConcFrame

\* evaluate_routing: if decision.route == DECOY and routing_state != DECOY
ConcRouteCheck ==
    \E th \in Threads :
        /\ threads[th].pc = "route_check"
        /\ IF threads[th].decision.route = "decoy" /\ session.routing_state # "decoy"
           THEN Goto(th, "route_write", 0, threads[th].decision)
           ELSE Goto(th, "done", 0, threads[th].decision)
        /\ UNCHANGED session
        /\ ConcFrame

\* evaluate_routing: self.session.routing_state = DECOY
ConcRouteWrite ==
    \E th \in Threads :
        /\ threads[th].pc = "route_write"
        /\ session' = [session EXCEPT !.routing_state = "decoy"]
        /\ Goto(th, "route_flag", 0, threads[th].decision)
        /\ ConcFrame

\* evaluate_routing: self.session.flags["routed_to_decoy"] = True
ConcRouteFlag ==
    \E th \in Threads :
        /\ threads[th].pc = "route_flag"
        /\ session' = [session EXCEPT !.flags = SetFlag(@, "routed_to_decoy")]
        /\ Goto(th, "done", 0, threads[th].decision)
        /\ ConcFrame

\* the session a call leaves when it runs alone
RunAlone(s, call, t) ==
    CASE call.op = "increase_risk" -> increase_risk(s, call.amount, call.reason)
      [] call.op = "apply_decay" -> apply_decay(s, t)
      [] call.op = "evaluate_routing" -> evaluate_routing(s)
      [] call.op = "process_cycle" -> process_cycle(s, t)

\* the sessions the sequential orders of the two calls leave
SequentialOutcomes ==
    {RunAlone(RunAlone(conc_start, threads[a].call, now), threads[b].call, now) :
        <<a, b>> \in {o \in Threads \X Threads : o[1] # o[2]}}

(***************************************************************************)
(* app/behavior/collector.py                                               *)
(*                                                                         *)
(* Routes are sequences of characters and timestamps whole seconds.  The   *)
(* coroutines run on one asyncio event loop: a task keeps the loop until   *)
(* it returns or waits for a lock that another task holds, so any number   *)
(* of calls may be pending while one of them runs.                         *)
(***************************************************************************)
SessionIds == {"A", "B"}
TaskIds == {1, 2}

\* time.time() stops after MaxClock seconds
MaxClock == 2

\* the model starts at most MaxRequests collect_request calls
MaxRequests == 3

\* the capacity the collector was constructed with
max_timestamps_per_session == 2

_sensitive_route_prefixes ==
    {<<"/", "a", "d", "m", "i", "n">>,
     <<"/", "a", "p", "i", "/", "a", "d", "m", "i", "n">>,
     <<"/", "a", "p", "i", "/", "k", "e", "y", "s">>,
     <<"/", "a", "u", "t", "h", "/", "t", "o", "k", "e", "n">>,
     <<"/", "p", "a", "s", "s", "w", "o", "r", "d", "/", "r", "e", "s", "e", "t">>,
     <<"/", "a", "p", "i", "/", "u", "s", "e", "r", "s">>,
     <<"/", "a", "p", "i", "/", "v", "1", "/", "a", "d", "m", "i", "n">>,
     <<"/", "a", "p", "i", "/", "v", "1", "/", "k", "e", "y", "s">>,
     <<"/", "a", "p", "i", "/", "v", "1", "/", "u", "s", "e", "r", "s">>}

\* the routes requested: "/home" and "/adminx"
CollectRoutes == {<<"/", "h", "o", "m", "e">>, <<"/", "a", "d", "m", "i", "n", "x">>}

\* the arguments left out by the caller (None)
NoTimestamp == 0 - 1
NoStatus == 0 - 1

\* timestamp arguments: the default, or an old timestamp supplied by the caller
TimestampArgs == {NoTimestamp, 0}
StatusArgs == {NoStatus, 200, 404}
MaxAgeArgs == {0, 1}

\* route.startswith(prefix)
startswith(route, prefix) ==
    Len(prefix) <= Len(route) /\ SubSeq(route, 1, Len(prefix)) = prefix

_is_sensitive_route(route) ==
    \E prefix \in _sensitive_route_prefixes : startswith(route, prefix)

\* SessionBehavior(session_id=...) built at time t; incarnation tells the objects
\* created for one session id apart, arrivals lists every timestamp recorded on it
SessionBehavior(incarnation, t) ==
    [total_requests |-> 0,
     unique_routes |-> {},
     request_timestamps |-> <<>>,
     error_count |-> 0,
     sensitive_route_hits |-> 0,
     _lock |-> 0,
     last_updated |-> t,
     incarnation |-> incarnation,
     arrivals |-> <<>>]

\* mutant: the deque has no maxlen
deque_append_unbounded(d, x, maxlen) == Append(d, x)

\* deque(maxlen=maxlen).append(x)
deque_append(d, x, maxlen) ==
    IF maxlen = 0 THEN <<>>
    ELSE IF Len(d) < maxlen THEN Append(d, x)
    ELSE Append(Tail(d), x)

\* mutant: the counter is written from a stale value, as in a lost update
record_request_stale(b, route, response_status, timestamp) ==
    [b EXCEPT
        !.total_requests = 1,
        !.unique_routes = @ \cup {route},
        !.request_timestamps = deque_append(@, timestamp, max_timestamps_per_session),
        !.last_updated = timestamp,
        !.arrivals = Append(@, timestamp)]

\* mutant: every status from 400 up counts as an error
record_request_open_range(b, route, response_status, timestamp) ==
    [b EXCEPT
        !.total_requests = @ + 1,
        !.unique_routes = @ \cup {route},
        !.request_timestamps = deque_append(@, timestamp, max_timestamps_per_session),
        !.error_count = IF response_status # NoStatus /\ 400 <= response_status
                        THEN @ + 1 ELSE @,
        !.sensitive_route_hits = IF _is_sensitive_route(route) THEN @ + 1 ELSE @,
        !.last_updated = timestamp,
        !.arrivals = Append(@, timestamp)]

\* the body of collect_request's critical section
record_request(b, route, response_status, timestamp) ==
    [b EXCEPT
        !.total_requests = @ + 1,
        !.unique_routes = @ \cup {route},
        !.request_timestamps = deque_append(@, timestamp, max_timestamps_per_session),
        !.error_count =
            IF response_status # NoStatus /\ response_status # 0
               /\ 400 <= response_status /\ response_status < 600
            THEN @ + 1 ELSE @,
        !.sensitive_route_hits = IF _is_sensitive_route(route) THEN @ + 1 ELSE @,
        !.last_updated = timestamp,
        !.arrivals = Append(@, timestamp)]

\* mutant: timestamp_count reports the number of requests
snapshot_of_request_count(session_id, b) ==
    [session_id |-> session_id,
     total_requests |-> b.total_requests,
     unique_routes |-> b.unique_routes,
     unique_route_count |-> Cardinality(b.unique_routes),
     request_timestamps |-> b.request_timestamps,
     timestamp_count |-> b.total_requests,
     max_timestamps_cap |-> max_timestamps_per_session,
     error_count |-> b.error_count,
     sensitive_route_hits |-> b.sensitive_route_hits,
     last_updated |-> b.last_updated]

\* the dict get_session_snapshot builds under the session lock
snapshot_of(session_id, b) ==
    [session_id |-> session_id,
     total_requests |-> b.total_requests,
     unique_routes |-> b.unique_routes,
     unique_route_count |-> Cardinality(b.unique_routes),
     request_timestamps |-> b.request_timestamps,
     timestamp_count |-> Len(b.request_timestamps),
     max_timestamps_cap |-> max_timestamps_per_session,
     error_count |-> b.error_count,
     sensitive_route_hits |-> b.sensitive_route_hits,
     last_updated |-> b.last_updated]

\* mutant: a session exactly max_age_seconds old is selected too
sessions_to_remove_inclusive(behaviors, current_time, max_age_seconds) ==
    {sid \in DOMAIN behaviors :
        current_time - behaviors[sid].last_updated >= max_age_seconds}

\* the session ids cleanup_old_sessions selects
sessions_to_remove(behaviors, current_time, max_age_seconds) ==
    {sid \in DOMAIN behaviors :
        current_time - behaviors[sid].last_updated > max_age_seconds}

\* del self._session_behaviors[sid] for every sid of gone that is present
delete(behaviors, gone) == [sid \in DOMAIN behaviors \ gone |-> behaviors[sid]]

\* mutant: the dict is indexed without the membership test
find_session_unchecked(behaviors, session_id) ==
    [present |-> session_id \in DOMAIN behaviors,
     raised |-> session_id \notin DOMAIN behaviors]

\* "if session_id not in self._session_behaviors: return {}", then the lookup
find_session(behaviors, session_id) ==
    [present |-> session_id \in DOMAIN behaviors, raised |-> FALSE]

\* a task that runs no coroutine
IdleTask ==
    [op |-> "none", pc |-> "idle", session_id |-> "", route |-> <<>>,
     response_status |-> NoStatus, timestamp |-> NoTimestamp, max_age_seconds |-> 0,
     current_time |-> 0, ref |-> 0, todo |-> {}, selected |-> {}, result |-> <<>>, raised |-> FALSE]

\* the object a task obtained from the dict is still the one stored there
Live(t) ==
    /\ tasks[t].session_id \in DOMAIN _session_behaviors
    /\ _session_behaviors[tasks[t].session_id].incarnation = tasks[t].ref

\* the event loop may run a step of task t: it is the running task, or the loop is
\* free and t was suspended
CanRun(t) == running = t \/ (running = 0 /\ tasks[t].pc # "idle")

\* mutant: a coroutine may start while another one is in the middle of its own
CanStart_preemptive(t) == tasks[t].pc = "idle"

\* the loop is free and a new coroutine can start as task t, the first free task
CanStart(t) ==
    /\ running = 0
    /\ tasks[t].pc = "idle"
    /\ \A u \in TaskIds : u < t => tasks[u].pc # "idle"

CollectorIdle ==
    /\ clock = 0
    /\ _session_behaviors = <<>>
    /\ _cleanup_lock = 0
    /\ tasks = [t \in TaskIds |-> IdleTask]
    /\ running = 0
    /\ created = [sid \in SessionIds |-> 0]
    /\ calls = [sid \in SessionIds |-> 0]
    /\ remaining = 0

CollectorInit ==
    /\ clock = 0
    /\ _session_behaviors = <<>>
    /\ _cleanup_lock = 0
    /\ tasks = [t \in TaskIds |-> IdleTask]
    /\ running = 0
    /\ created = [sid \in SessionIds |-> 0]
    /\ calls = [sid \in SessionIds |-> 0]
    /\ remaining = MaxRequests

CollectorFrame ==
    UNCHANGED <<sessionVars, policyVars, pipelineVars, decayVars, canaryVars, concVars,
                sessions, startupVars, recordVars, idleVars>>

\* time.time() advances; a coroutine runs to its end within one clock second
ClockTick ==
    /\ clock < MaxClock
    /\ running = 0
    /\ clock' = clock + 1
    /\ UNCHANGED <<_session_behaviors, _cleanup_lock, tasks, running, created, calls,
                   remaining>>
    /\ CollectorFrame

\* collect_request up to its first lock: the default timestamp and the membership
\* test of _get_or_create_session_behavior
CollectBegin ==
    \E t \in TaskIds, sid \in SessionIds, route \in CollectRoutes,
       response_status \in StatusArgs, timestamp \in TimestampArgs :
        /\ CanStart(t)
        /\ remaining > 0
        /\ tasks' = [tasks EXCEPT ![t] =
              [IdleTask EXCEPT
                  !.op = "collect_request",
                  !.session_id = sid,
                  !.route = route,
                  !.response_status = response_status,
                  !.timestamp = IF timestamp = NoTimestamp THEN clock ELSE timestamp,
                  !.pc = IF sid \notin DOMAIN _session_behaviors
                         THEN "create_acquire" ELSE "collect_acquire",
                  !.ref = IF sid \notin DOMAIN _session_behaviors
                          THEN 0 ELSE _session_behaviors[sid].incarnation]]
        /\ running' = t
        /\ remaining' = remaining - 1
        /\ calls' = [calls EXCEPT ![sid] = @ + 1]
        /\ UNCHANGED <<clock, _session_behaviors, _cleanup_lock, created>>
        /\ CollectorFrame

\* async with self._cleanup_lock: the task takes the lock, or is suspended while
\* another task holds it
AcquireCleanupLock ==
    \E t \in TaskIds :
        /\ CanRun(t)
        /\ tasks[t].pc \in {"create_acquire", "clear_acquire", "cleanup_acquire"}
        /\ IF _cleanup_lock = 0
           THEN /\ _cleanup_lock' = t
                /\ running' = t
                /\ tasks' = [tasks EXCEPT ![t].pc =
                      CASE @ = "create_acquire" -> "create_locked"
                        [] @ = "clear_acquire" -> "clear_locked"
                        [] @ = "cleanup_acquire" -> "cleanup_locked"]
           ELSE /\ running' = 0
                /\ UNCHANGED <<_cleanup_lock, tasks>>
        /\ UNCHANGED <<clock, _session_behaviors, created, calls, remaining>>
        /\ CollectorFrame

\* _get_or_create_session_behavior under the cleanup lock: the second membership
\* test, the new SessionBehavior with its deque, and the final dict lookup
CreateSessionBehavior ==
    \E t \in TaskIds :
        LET sid == tasks[t].session_id
            absent == sid \notin DOMAIN _session_behaviors
            behaviors == IF absent
                         THEN [s \in DOMAIN _session_behaviors \cup {sid} |->
                                 IF s = sid THEN SessionBehavior(created[sid] + 1, clock)
                                 ELSE _session_behaviors[s]]
                         ELSE _session_behaviors
        IN  /\ CanRun(t)
            /\ tasks[t].pc = "create_locked"
            /\ _session_behaviors' = behaviors
            /\ created' = IF absent THEN [created EXCEPT ![sid] = @ + 1] ELSE created
            /\ _cleanup_lock' = 0
            /\ tasks' = [tasks EXCEPT ![t] =
                  IF sid \in DOMAIN behaviors
                  THEN [@ EXCEPT !.pc = "collect_acquire",
                                 !.ref = behaviors[sid].incarnation]
                  ELSE [@ EXCEPT !.pc = "done", !.raised = TRUE]]
            /\ UNCHANGED <<clock, running, calls, remaining>>
            /\ CollectorFrame

\* async with session_behavior._lock, in collect_request and get_session_snapshot
AcquireSessionLock ==
    \E t \in TaskIds :
        /\ CanRun(t)
        /\ tasks[t].pc \in {"collect_acquire", "snapshot_acquire", "all_acquire"}
        /\ IF Live(t) /\ _session_behaviors[tasks[t].session_id]._lock # 0
           THEN /\ running' = 0
                /\ UNCHANGED <<_session_behaviors, tasks>>
           ELSE /\ running' = t
                /\ _session_behaviors' =
                      IF Live(t)
                      THEN [_session_behaviors EXCEPT ![tasks[t].session_id]._lock = t]
                      ELSE _session_behaviors
                /\ tasks' = [tasks EXCEPT ![t].pc =
                      CASE @ = "collect_acquire" -> "collect_locked"
                        [] @ = "snapshot_acquire" -> "snapshot_locked"
                        [] @ = "all_acquire" -> "all_locked"]
        /\ UNCHANGED <<clock, _cleanup_lock, created, calls, remaining>>
        /\ CollectorFrame

\* the critical section of collect_request, and the release of the session lock
CollectUpdate ==
    \E t \in TaskIds :
        /\ CanRun(t)
        /\ tasks[t].pc = "collect_locked"
        /\ _session_behaviors' =
              IF Live(t)
              THEN [_session_behaviors EXCEPT ![tasks[t].session_id] =
                      [record_request(@, tasks[t].route, tasks[t].response_status,
                                      tasks[t].timestamp) EXCEPT !._lock = 0]]
              ELSE _session_behaviors
        /\ tasks' = [tasks EXCEPT ![t].pc = "done"]
        /\ UNCHANGED <<clock, _cleanup_lock, running, created, calls, remaining>>
        /\ CollectorFrame

\* get_session_snapshot up to its lock: {} for an unknown session id
SnapshotBegin ==
    \E t \in TaskIds, sid \in SessionIds :
        /\ CanStart(t)
        /\ tasks' = [tasks EXCEPT ![t] =
              IF ~find_session(_session_behaviors, sid).present
              THEN [IdleTask EXCEPT !.op = "get_session_snapshot", !.session_id = sid,
                                    !.pc = "done", !.result = <<>>,
                                    !.raised = find_session(_session_behaviors, sid).raised]
              ELSE [IdleTask EXCEPT !.op = "get_session_snapshot", !.session_id = sid,
                                    !.pc = "snapshot_acquire",
                                    !.ref = _session_behaviors[sid].incarnation]]
        /\ running' = t
        /\ UNCHANGED <<clock, _session_behaviors, _cleanup_lock, created, calls, remaining>>
        /\ CollectorFrame

\* the snapshot taken under the session lock, and the release of the lock
SnapshotRead ==
    \E t \in TaskIds :
        /\ CanRun(t)
        /\ tasks[t].pc = "snapshot_locked"
        /\ Live(t)
        /\ tasks' = [tasks EXCEPT ![t] =
              [@ EXCEPT !.pc = "done",
                        !.result = snapshot_of(tasks[t].session_id,
                                               _session_behaviors[tasks[t].session_id])]]
        /\ _session_behaviors' = [_session_behaviors EXCEPT ![tasks[t].session_id]._lock = 0]
        /\ UNCHANGED <<clock, _cleanup_lock, running, created, calls, remaining>>
        /\ CollectorFrame

\* get_all_session_snapshots: list(self._session_behaviors.keys())
AllBegin ==
    \E t \in TaskIds :
        /\ CanStart(t)
        /\ tasks' = [tasks EXCEPT ![t] =
              [IdleTask EXCEPT !.op = "get_all_session_snapshots", !.pc = "all_loop",
                               !.todo = DOMAIN _session_behaviors]]
        /\ running' = t
        /\ UNCHANGED <<clock, _session_behaviors, _cleanup_lock, created, calls, remaining>>
        /\ CollectorFrame

\* the loop of get_all_session_snapshots: the next session id, and the membership
\* test of get_session_snapshot for it
AllLoop ==
    \E t \in TaskIds :
        /\ CanRun(t)
        /\ tasks[t].pc = "all_loop"
        /\ IF tasks[t].todo = {}
           THEN tasks' = [tasks EXCEPT ![t].pc = "done"]
           ELSE \E sid \in tasks[t].todo :
                   tasks' = [tasks EXCEPT ![t] =
                      IF sid \notin DOMAIN _session_behaviors
                      THEN [@ EXCEPT !.todo = @ \ {sid}]
                      ELSE [@ EXCEPT !.todo = @ \ {sid}, !.session_id = sid,
                                     !.pc = "all_acquire",
                                     !.ref = _session_behaviors[sid].incarnation]]
        /\ UNCHANGED <<clock, _session_behaviors, _cleanup_lock, running, created, calls,
                       remaining>>
        /\ CollectorFrame

\* one snapshot of get_all_session_snapshots, stored under its session id
AllRead ==
    \E t \in TaskIds :
        LET sid == tasks[t].session_id
        IN  /\ CanRun(t)
            /\ tasks[t].pc = "all_locked"
            /\ Live(t)
            /\ tasks' = [tasks EXCEPT ![t] =
                  [@ EXCEPT !.pc = "all_loop",
                            !.result = [s \in DOMAIN @ \cup {sid} |->
                                          IF s = sid
                                          THEN snapshot_of(sid, _session_behaviors[sid])
                                          ELSE @[s]]]]
            /\ _session_behaviors' = [_session_behaviors EXCEPT ![sid]._lock = 0]
            /\ UNCHANGED <<clock, _cleanup_lock, running, created, calls, remaining>>
            /\ CollectorFrame

\* clear_session up to its lock: False for an unknown session id
ClearBegin ==
    \E t \in TaskIds, sid \in SessionIds :
        /\ CanStart(t)
        /\ tasks' = [tasks EXCEPT ![t] =
              IF sid \in DOMAIN _session_behaviors
              THEN [IdleTask EXCEPT !.op = "clear_session", !.session_id = sid,
                                    !.pc = "clear_acquire"]
              ELSE [IdleTask EXCEPT !.op = "clear_session", !.session_id = sid,
                                    !.pc = "done", !.result = FALSE]]
        /\ running' = t
        /\ UNCHANGED <<clock, _session_behaviors, _cleanup_lock, created, calls, remaining>>
        /\ CollectorFrame

\* clear_session under the cleanup lock: the second membership test and the del
ClearDelete ==
    \E t \in TaskIds :
        LET sid == tasks[t].session_id
            present == sid \in DOMAIN _session_behaviors
        IN  /\ CanRun(t)
            /\ tasks[t].pc = "clear_locked"
            /\ _session_behaviors' =
                  IF present THEN delete(_session_behaviors, {sid}) ELSE _session_behaviors
            /\ calls' = IF present THEN [calls EXCEPT ![sid] = 0] ELSE calls
            /\ _cleanup_lock' = 0
            /\ tasks' = [tasks EXCEPT ![t] = [@ EXCEPT !.pc = "done", !.result = present]]
            /\ UNCHANGED <<clock, running, created, remaining>>
            /\ CollectorFrame

\* cleanup_old_sessions up to its lock: time.time() and the selection loop
CleanupBegin ==
    \E t \in TaskIds, max_age_seconds \in MaxAgeArgs :
        /\ CanStart(t)
        /\ tasks' = [tasks EXCEPT ![t] =
              [IdleTask EXCEPT
                  !.op = "cleanup_old_sessions",
                  !.max_age_seconds = max_age_seconds,
                  !.current_time = clock,
                  !.pc = "cleanup_acquire",
                  !.selected = sessions_to_remove(_session_behaviors, clock,
                                                  max_age_seconds)]]
        /\ running' = t
        /\ UNCHANGED <<clock, _session_behaviors, _cleanup_lock, created, calls, remaining>>
        /\ CollectorFrame

\* cleanup_old_sessions under the cleanup lock: the guarded dels, and the count
\* it returns
CleanupDelete ==
    \E t \in TaskIds :
        /\ CanRun(t)
        /\ tasks[t].pc = "cleanup_locked"
        /\ _session_behaviors' = delete(_session_behaviors, tasks[t].selected)
        /\ calls' = [sid \in SessionIds |->
                        IF sid \in tasks[t].selected \cap DOMAIN _session_behaviors
                        THEN 0 ELSE calls[sid]]
        /\ _cleanup_lock' = 0
        /\ tasks' = [tasks EXCEPT ![t] =
              [@ EXCEPT !.pc = "done", !.result = Cardinality(tasks[t].selected)]]
        /\ UNCHANGED <<clock, running, created, remaining>>
        /\ CollectorFrame

\* the coroutine returns (or its exception propagates) and the loop is free again
Return ==
    \E t \in TaskIds :
        /\ running = t
        /\ tasks[t].pc = "done"
        /\ tasks' = [tasks EXCEPT ![t] = IdleTask]
        /\ running' = 0
        /\ UNCHANGED <<clock, _session_behaviors, _cleanup_lock, created, calls, remaining>>
        /\ CollectorFrame

(***************************************************************************)
(* Application startup: app/risk/thresholds.py and app/main.py.            *)
(***************************************************************************)
\* the values a deployment may give a threshold, in hundredths: -0.10 .. 1.10
ThresholdValues == {10 * k - 10 : k \in 0..12}

\* the risk scores a routing decision is taken on after startup
StartupRisks == {0, 50, 100}

\* validate_thresholds(): ValueError unless 0.0 <= LOW < HIGH <= 1.0
validate_thresholds(low, high) ==
    IF ~(0 <= low /\ low < high /\ high <= MAX_RISK) THEN "ValueError" ELSE "ok"

\* rule 2 of evaluate_policy with the configured HIGH_RISK_THRESHOLD
configured_policy(risk_score, high) ==
    IF risk_score >= high
    THEN PolicyDecision("decoy", "risk_above_high_threshold")
    ELSE PolicyDecision("real", "risk_below_threshold")

StartupInit ==
    /\ thresholds \in [low : ThresholdValues, high : ThresholdValues]
    /\ startup = "down"

StartupFrame ==
    UNCHANGED <<sessionVars, pipelineVars, decayVars, canaryVars, concVars,
                collectorVars, sessions, thresholds, recordVars, idleVars>>

\* import app.main: the FastAPI app is built and the routers are included;
\* validate_thresholds is called neither here nor by any module imported
ImportMain ==
    /\ startup = "down"
    /\ startup' = "up"
    /\ UNCHANGED policyVars
    /\ StartupFrame

\* import app.main where app.api.decoy.routes or app.tests.test, which the tree
\* does not hold, cannot be imported: ModuleNotFoundError, whatever the thresholds
ImportMainFails ==
    /\ startup = "down"
    /\ startup' = "ModuleNotFoundError"
    /\ UNCHANGED policyVars
    /\ StartupFrame

\* the running application takes a routing decision for a session on "real"
RoutingDecision ==
    /\ startup = "up"
    /\ policy_out = NoDecision
    /\ \E risk_score \in StartupRisks :
        /\ policy_args' = [risk_score |-> risk_score, current_route |-> "real"]
        /\ policy_out' = configured_policy(risk_score, thresholds.high)
    /\ UNCHANGED startup
    /\ StartupFrame

(***************************************************************************)
(* Several sessions: one SessionState and one SessionManager per session   *)
(* id (app/session/models.py, app/session/manager.py), next to the         *)
(* collector's records.                                                    *)
(***************************************************************************)
\* the model starts at most IsolationRequests collect_request calls
IsolationRequests == 2

\* no SessionState exists; dicts holds the dict objects flags fields refer to,
\* last the session id whose manager was called last
EmptyStore == [states |-> [sid \in {} |-> 0], dicts |-> <<>>, last |-> ""]

\* mutant: one dict object is the default of every SessionState
flags_default_shared(dicts) == 1

\* field(default_factory=dict): the flags of a new SessionState is a new dict
flags_default(dicts) == Len(dicts) + 1

\* SessionState(session_id=sid, ...) built at time t; its flags field refers to
\* the dict the default factory gave
NewSessionState(store, sid, t) ==
    LET ref == flags_default(store.dicts)
    IN  [states |-> store.states @@ (sid :> [SessionState(t) EXCEPT !.flags = ref]),
         dicts |-> IF ref > Len(store.dicts)
                   THEN Append(store.dicts, <<>>)
                   ELSE store.dicts,
         last |-> store.last]

\* self.session of the SessionManager of sid, the flags dict read through its
\* reference
SessionOf(store, sid) ==
    [store.states[sid] EXCEPT !.flags = store.dicts[store.states[sid].flags]]

\* either the collector is about to record requests of the two session ids, or
\* a SessionState was built for each of them and their managers are about to act
IsolationInit ==
    \/ /\ remaining = IsolationRequests
       /\ sessions = EmptyStore
    \/ /\ remaining = 0
       /\ sessions = NewSessionState(NewSessionState(EmptyStore, "A", 0), "B", 0)

\* one method call on the SessionManager of one session: the scalar fields are
\* assigned on its SessionState, the flags dict is changed in place
ManageSession ==
    /\ \E sid \in DOMAIN sessions.states, call \in Calls :
        LET ref == sessions.states[sid].flags
            s == RunAlone(SessionOf(sessions, sid), call, now)
        IN  sessions' =
                [states |-> [sessions.states EXCEPT ![sid] = [s EXCEPT !.flags = ref]],
                 dicts |-> [sessions.dicts EXCEPT ![ref] = s.flags],
                 last |-> sid]
    /\ UNCHANGED <<sessionVars, policyVars, pipelineVars, decayVars, canaryVars, concVars,
                   collectorVars, startupVars, recordVars, idleVars>>

\* no SessionState is followed per session id
IsolationIdle == sessions = <<>>

\* the application is not being started
StartupIdle ==
    /\ thresholds = [low |-> LOW_RISK_THRESHOLD, high |-> HIGH_RISK_THRESHOLD]
    /\ startup = "none"

(***************************************************************************)
(* Direct runs of collect_request's critical section on bounded inputs.    *)
(***************************************************************************)
\* the status codes a request may report, around the bounds of [400, 600)
RecordStatuses == {NoStatus, 0, 200, 399, 400, 404, 500, 599, 600, 700}

\* "", "/home", "/adm", "/admin", "/adminx", "/x/admin", "/api/v1/keys/1"
RecordRoutes ==
    {<<>>,
     <<"/", "h", "o", "m", "e">>,
     <<"/", "a", "d", "m">>,
     <<"/", "a", "d", "m", "i", "n">>,
     <<"/", "a", "d", "m", "i", "n", "x">>,
     <<"/", "x", "/", "a", "d", "m", "i", "n">>,
     <<"/", "a", "p", "i", "/", "v", "1", "/", "k", "e", "y", "s", "/", "1">>}

RecordTimestamps == {0, 1, 5}

\* the records a request may find: a new one, and one that counted two requests,
\* one of them an error on a sensitive route, last updated at 3
RecordBehaviors ==
    {SessionBehavior(1, 0),
     [SessionBehavior(1, 0) EXCEPT
         !.total_requests = 2,
         !.unique_routes = {<<"/", "h", "o", "m", "e">>, <<"/", "a", "d", "m", "i", "n">>},
         !.request_timestamps = <<2, 3>>,
         !.error_count = 1,
         !.sensitive_route_hits = 1,
         !.last_updated = 3,
         !.arrivals = <<2, 3>>]}

RecordIdle ==
    /\ record_args = [b |-> SessionBehavior(1, 0), route |-> <<>>,
                      response_status |-> NoStatus, timestamp |-> 0]
    /\ record_out = [done |-> FALSE, b |-> SessionBehavior(1, 0)]

RecordInit ==
    /\ record_args \in [b : RecordBehaviors, route : RecordRoutes,
                         response_status : RecordStatuses, timestamp : RecordTimestamps]
    /\ record_out = [done |-> FALSE, b |-> record_args.b]

\* collect_request on a session whose record exists: the critical section
RecordRequest ==
    /\ ~record_out.done
    /\ record_out' = [done |-> TRUE,
                      b |-> record_request(record_args.b, record_args.route,
                                           record_args.response_status,
                                           record_args.timestamp)]
    /\ UNCHANGED <<record_args, sessionVars, policyVars, pipelineVars, decayVars,
                   canaryVars, concVars, collectorVars, sessions, startupVars, idleVars>>

(***************************************************************************)
(* An idle session: apply_decay called again and again with no activity.   *)
(***************************************************************************)
\* the model follows at most MaxDecayCalls apply_decay calls on the idle session
MaxDecayCalls == 100

\* the risk scores the session may have when it goes idle: 0.05 .. 1.00
IdleRisks == MIN_RISK_FLOOR..MAX_RISK

\* no idle session is followed
IdleIdle ==
    /\ decay_start = 0
    /\ decay_calls = 0

\* the session was last active at minute 0, the grace period has passed
IdleInit ==
    /\ now = DECAY_GRACE_PERIOD
    /\ \E r \in IdleRisks :
        /\ session = [SessionState(0) EXCEPT !.risk_score = r]
        /\ decay_start = r
    /\ decay_calls = 0
    /\ last_op = Op("init", NoArgs, NoDecision)

\* time passes on the idle session
IdleTick ==
    /\ now < MaxTime
    /\ now' = now + 1
    /\ last_op' = Op("tick", NoArgs, NoDecision)
    /\ UNCHANGED <<session, idleVars, policyVars, pipelineVars, decayVars, canaryVars,
                   concVars, collectorVars, sessions, startupVars, recordVars>>

\* SessionManager.apply_decay() on the idle session
IdleDecay ==
    /\ decay_calls < MaxDecayCalls
    /\ session' = apply_decay(session, now)
    /\ decay_calls' = decay_calls + 1
    /\ last_op' = Op("apply_decay", NoArgs, NoDecision)
    /\ UNCHANGED <<now, decay_start, policyVars, pipelineVars, decayVars, canaryVars,
                   concVars, collectorVars, sessions, startupVars, recordVars>>

LaterIdle == CollectorIdle /\ IsolationIdle /\ StartupIdle /\ RecordIdle /\ IdleIdle

(***************************************************************************)
(* Specifications.                                                         *)
(***************************************************************************)
Init == SessionInit /\ PolicyIdle /\ PipelineIdle /\ DecayIdle /\ CanaryIdle /\ ConcIdle /\ LaterIdle

Next ==
    \/ Tick
    \/ RecordActivity
    \/ IncreaseRisk
    \/ DecreaseRisk
    \/ ApplyDecay
    \/ EvaluateRouting
    \/ ProcessCycle
    \/ ApplyCanaryImpact

Spec == Init /\ [][Next]_vars

PolicySpecInit ==
    SessionInit /\ PolicyInit /\ PipelineIdle /\ DecayIdle /\ CanaryIdle /\ ConcIdle /\ LaterIdle

PolicyNext == EvaluatePolicy

PolicySpec == PolicySpecInit /\ [][PolicyNext]_vars

RulesSpecInit ==
    SessionInit /\ PolicyIdle /\ RulesInit /\ DecayIdle /\ CanaryIdle /\ ConcIdle /\ LaterIdle

RulesNext == Evaluate

RulesSpec == RulesSpecInit /\ [][RulesNext]_vars

ExtractSpecInit ==
    SessionInit /\ PolicyIdle /\ ExtractInit /\ DecayIdle /\ CanaryIdle /\ ConcIdle /\ LaterIdle

ExtractNext ==
    \/ Extract
    \/ Evaluate

ExtractSpec == ExtractSpecInit /\ [][ExtractNext]_vars

DecaySpecInit ==
    SessionInit /\ PolicyIdle /\ PipelineIdle /\ DecayInit /\ CanaryIdle /\ ConcIdle /\ LaterIdle

DecayNext == ApplyRiskDecay

DecaySpec == DecaySpecInit /\ [][DecayNext]_vars

CanarySpecInit ==
    SessionInit /\ PolicyIdle /\ PipelineIdle /\ DecayIdle /\ CanaryInit /\ ConcIdle /\ LaterIdle

CanaryNext == DetectCanaryHit

CanarySpec == CanarySpecInit /\ [][CanaryNext]_vars

ConcSpecInit ==
    ConcInit /\ PolicyIdle /\ PipelineIdle /\ DecayIdle /\ CanaryIdle /\ LaterIdle

ConcNext ==
    \/ ConcRecord
    \/ ConcIncRead
    \/ ConcIncWrite
    \/ ConcIncFlag
    \/ ConcDecayReadRisk
    \/ ConcDecayReadActivity
    \/ ConcDecayWrite
    \/ ConcRouteReadRisk
    \/ ConcRouteReadState
    \/ ConcRouteCheck
    \/ ConcRouteWrite
    \/ ConcRouteFlag

ConcSpec == ConcSpecInit /\ [][ConcNext]_vars

CollectorSpecInit ==
    /\ SessionInit /\ PolicyIdle /\ PipelineIdle /\ DecayIdle /\ CanaryIdle /\ ConcIdle
    /\ CollectorInit /\ IsolationIdle /\ StartupIdle /\ RecordIdle /\ IdleIdle

CollectorNext ==
    \/ ClockTick
    \/ CollectBegin
    \/ AcquireCleanupLock
    \/ CreateSessionBehavior
    \/ AcquireSessionLock
    \/ CollectUpdate
    \/ SnapshotBegin
    \/ SnapshotRead
    \/ AllBegin
    \/ AllLoop
    \/ AllRead
    \/ ClearBegin
    \/ ClearDelete
    \/ CleanupBegin
    \/ CleanupDelete
    \/ Return

CollectorSpec == CollectorSpecInit /\ [][CollectorNext]_vars

IsolationSpecInit ==
    /\ SessionInit /\ PolicyIdle /\ PipelineIdle /\ DecayIdle /\ CanaryIdle /\ ConcIdle
    /\ clock = 0
    /\ _session_behaviors = <<>>
    /\ _cleanup_lock = 0
    /\ tasks = [t \in TaskIds |-> IdleTask]
    /\ running = 0
    /\ created = [sid \in SessionIds |-> 0]
    /\ calls = [sid \in SessionIds |-> 0]
    /\ IsolationInit /\ StartupIdle /\ RecordIdle /\ IdleIdle

IsolationNext ==
    \/ ClockTick
    \/ CollectBegin
    \/ AcquireCleanupLock
    \/ CreateSessionBehavior
    \/ AcquireSessionLock
    \/ CollectUpdate
    \/ SnapshotBegin
    \/ SnapshotRead
    \/ ClearBegin
    \/ ClearDelete
    \/ Return
    \/ ManageSession

IsolationSpec == IsolationSpecInit /\ [][IsolationNext]_vars

StartupSpecInit ==
    /\ SessionInit /\ PolicyIdle /\ PipelineIdle /\ DecayIdle /\ CanaryIdle /\ ConcIdle
    /\ CollectorIdle /\ IsolationIdle /\ StartupInit /\ RecordIdle /\ IdleIdle

StartupNext ==
    \/ ImportMain
    \/ ImportMainFails
    \/ RoutingDecision

StartupSpec == StartupSpecInit /\ [][StartupNext]_vars

RecordSpecInit ==
    /\ SessionInit /\ PolicyIdle /\ PipelineIdle /\ DecayIdle /\ CanaryIdle /\ ConcIdle
    /\ CollectorIdle /\ IsolationIdle /\ StartupIdle /\ RecordInit /\ IdleIdle

RecordNext == RecordRequest

RecordSpec == RecordSpecInit /\ [][RecordNext]_vars

IdleSpecInit ==
    /\ IdleInit /\ PolicyIdle /\ PipelineIdle /\ DecayIdle /\ CanaryIdle /\ ConcIdle
    /\ CollectorIdle /\ IsolationIdle /\ StartupIdle /\ RecordIdle

IdleNext ==
    \/ IdleTick
    \/ IdleDecay

IdleSpec == IdleSpecInit /\ [][IdleNext]_vars

(***************************************************************************)
(* Claims about the session manager, checked under Spec.                   *)
(***************************************************************************)
\* C1: one-way escalation: once routing_state is "decoy" it is "decoy" in every
\* later state; no operation of the session manager steps from decoy to real.
C1_OneWayEscalation ==
    [][session.routing_state = "decoy" => session'.routing_state = "decoy"]_vars

\* a routing evaluation ran on a decoy session whose risk is below the high threshold
C1_Witness ==
    /\ session.routing_state = "decoy"
    /\ session.risk_score < 60
    /\ last_op.op = "evaluate_routing"

\* C2: risk_score stays in [0.0, 1.0] (0..100 hundredths) under every sequence of
\* increase_risk, decrease_risk, apply_decay and process_cycle calls.
C2_RiskInRange == session.risk_score >= 0 /\ session.risk_score <= 100

\* an increase with a reason was clamped at 1.0
C2_Witness ==
    /\ session.risk_score = 100
    /\ last_op.op = "increase_risk"
    /\ FlagSet(session.flags, "risk_behavior_rules")

\* C5: a process_cycle on a session in state "real" whose risk after the cycle's
\* decay step is >= 0.60 returns with routing_state "decoy" and
\* flags["routed_to_decoy"] true; a process_cycle on a decoy session leaves it decoy.
C5_EscalationWithinOneCycle ==
    [][last_op'.op = "process_cycle" =>
         /\ (session.routing_state = "real" /\ session'.risk_score >= 60)
               => /\ session'.routing_state = "decoy"
                  /\ FlagSet(session'.flags, "routed_to_decoy")
                  /\ last_op'.decision = PolicyDecision("decoy", "risk_above_high_threshold")
         /\ session.routing_state = "decoy"
               => /\ session'.routing_state = "decoy"
                  /\ last_op'.decision = PolicyDecision("decoy", "one_way_escalation_lock")
      ]_vars

\* Scenario C: after the privilege_probe canary the session was routed to the decoy,
\* its risk has come down to 0.10, and a process_cycle still answers decoy
C5_Witness ==
    /\ last_op.op = "process_cycle"
    /\ session.routing_state = "decoy"
    /\ session.risk_score = 10
    /\ FlagSet(session.flags, "risk_canary_privilege_probe")
    /\ FlagSet(session.flags, "routed_to_decoy")

\* C6: routing_state changes only in evaluate_routing (and in process_cycle through
\* it), only from real to decoy, and only when evaluate_policy returned "decoy";
\* record_activity, increase_risk, decrease_risk and apply_decay leave it unchanged.
C6_TransitionOnlyByPolicy ==
    [][session'.routing_state # session.routing_state =>
         /\ last_op'.op \in {"evaluate_routing", "process_cycle"}
         /\ last_op'.decision.route = "decoy"
         /\ session.routing_state = "real"
         /\ session'.routing_state = "decoy"
      ]_vars

\* evaluate_routing has just committed the transition the policy asked for
C6_Witness ==
    /\ last_op.op = "evaluate_routing"
    /\ last_op.decision = PolicyDecision("decoy", "risk_above_high_threshold")
    /\ session.routing_state = "decoy"

\* C7: a process_cycle on a session idle for longer than the grace period, with
\* risk above the floor, evaluates the policy on a risk lower than the risk before
\* the cycle (process_cycle changes risk_score only by its decay step).
C7_CycleDecaysBeforePolicy ==
    [][(/\ last_op'.op = "process_cycle"
        /\ now - session.last_activity_at > DECAY_GRACE_PERIOD
        /\ session.risk_score > MIN_RISK_FLOOR)
         => session'.risk_score < session.risk_score
      ]_vars

(***************************************************************************)
(* Claims about evaluate_policy, checked under PolicySpec.                 *)
(***************************************************************************)
\* C3: evaluate_policy with current_route "decoy" returns ("decoy",
\* "one_way_escalation_lock") for every risk_score, 0.0 included.
C3_DecoyLock ==
    (policy_out # NoDecision /\ policy_args.current_route = "decoy")
        => policy_out = [route |-> "decoy", reason |-> "one_way_escalation_lock"]

\* the policy was evaluated for a decoy session with risk 0.0
C3_Witness ==
    /\ policy_args = [risk_score |-> 0, current_route |-> "decoy"]
    /\ policy_out.route = "decoy"

\* C4: evaluate_policy with current_route "real" returns ("decoy",
\* "risk_above_high_threshold") exactly when risk_score >= 0.60 and ("real",
\* "risk_below_threshold") below it; the lock is tried first, so a decoy session
\* with a high risk still gets the lock's reason.
C4_ThresholdRule ==
    policy_out # NoDecision =>
        /\ (policy_args.current_route = "real" /\ policy_args.risk_score >= 60)
              => policy_out = [route |-> "decoy", reason |-> "risk_above_high_threshold"]
        /\ (policy_args.current_route = "real" /\ policy_args.risk_score < 60)
              => policy_out = [route |-> "real", reason |-> "risk_below_threshold"]
        /\ (policy_args.current_route = "decoy" /\ policy_args.risk_score >= 60)
              => policy_out.reason = "one_way_escalation_lock"

\* the policy was evaluated for a real session exactly at the boundary 0.60
C4_Witness ==
    /\ policy_args = [risk_score |-> 60, current_route |-> "real"]
    /\ policy_out = [route |-> "decoy", reason |-> "risk_above_high_threshold"]

(***************************************************************************)
(* Claims about BehaviorRuleEngine.evaluate, checked under RulesSpec.      *)
(***************************************************************************)
\* C8: for every feature map, missing keys and the empty map included, evaluate
\* returns a value in [0, 0.5]; the empty map returns 0.
C8_DeltaInRange ==
    stage = "delta" =>
        /\ risk_delta >= 0
        /\ risk_delta <= 50
        /\ features = <<>> => risk_delta = 0

\* every rule fired (0.20 + 0.15 + 0.15 + 0.15 + 0.10) and the sum was capped at 0.5
C8_Witness ==
    /\ stage = "delta"
    /\ risk_delta = 50
    /\ features = FeatureMap(<<21, 1>>, <<31, 100>>, <<21, 100>>, <<1, 1>>,
                             Zero, <<31, 1>>)

\* a feature of the rule table; a key the map does not hold reads as 0
C9_Feature(f, key) == IF key \in DOMAIN f THEN f[key] ELSE <<0, 1>>

\* the sum of the contributions of the rule table of the specification
C9_TableSum(f) ==
    LET rate == C9_Feature(f, "requests_per_second")
        total == C9_Feature(f, "total_requests")
    IN    (IF rate[1] > 20 * rate[2] THEN 20 ELSE 0)
        + (IF 8 * rate[2] < rate[1] /\ rate[1] <= 20 * rate[2] THEN 10 ELSE 0)
        + (IF RatGt(C9_Feature(f, "error_rate"), <<3, 10>>) THEN 15 ELSE 0)
        + (IF RatGt(C9_Feature(f, "sensitive_ratio"), <<2, 10>>) THEN 15 ELSE 0)
        + (IF RatGt(C9_Feature(f, "route_diversity"), <<9, 10>>) /\ total[1] > 30 * total[2]
           THEN 15 ELSE 0)
        + (IF RatLt(C9_Feature(f, "interval_variance"), <<1, 1000>>) /\ total[1] > 15 * total[2]
           THEN 10 ELSE 0)

\* C9: evaluate equals min(0.5, sum of the rule table): rate > 20 gives 0.20,
\* 8 < rate <= 20 gives 0.10, error_rate > 0.3 gives 0.15, sensitive_ratio > 0.2
\* gives 0.15, route_diversity > 0.9 with total_requests > 30 gives 0.15,
\* interval_variance < 0.001 with total_requests > 15 gives 0.10; each rule
\* contributes at most once and independently of the others.
C9_RuleTable ==
    stage = "delta" => risk_delta = Min(50, C9_TableSum(features))

\* a rate of exactly 20/s took the lower tier, 0.10, and nothing else fired
C9_Witness ==
    /\ stage = "delta"
    /\ features = FeatureMap(<<20, 1>>, <<3, 10>>, <<1, 5>>, <<9, 10>>,
                             <<1, 1000>>, <<31, 1>>)
    /\ risk_delta = 10

(***************************************************************************)
(* Claims about extract followed by evaluate, checked under ExtractSpec.   *)
(***************************************************************************)
\* the snapshot of Scenario A: 25 requests, 25 timestamps spanning 1.0 s, no
\* errors, no sensitive hits, 25 unique routes
C10_IsScenarioA(snap) ==
    /\ snap # EmptySnapshot
    /\ snap.total_requests = 25
    /\ Len(snap.request_timestamps) = 25
    /\ MaxSeq(snap.request_timestamps) - MinSeq(snap.request_timestamps) = TicksPerSecond
    /\ snap.error_count = 0
    /\ snap.sensitive_route_hits = 0
    /\ snap.unique_route_count = 25

C11_IsScenarioB(snap) ==
    /\ snap # EmptySnapshot
    /\ snap.total_requests = 35
    /\ Len(snap.request_timestamps) = 25
    /\ MaxSeq(snap.request_timestamps) - MinSeq(snap.request_timestamps) = TicksPerSecond
    /\ snap.error_count = 0
    /\ snap.sensitive_route_hits = 0
    /\ snap.unique_route_count = 35

C12_DecayFunction ==
    decay_out.done =>
        LET idle == decay_args.utcnow - decay_args.last_activity_at
            r == decay_args.current_risk
        IN  /\ idle < 2 => decay_out.risk = r
            /\ (idle >= 2 /\ r >= 6) => decay_out.risk = r - 1
            /\ (idle >= 2 /\ r < 6) => decay_out.risk = 5
            /\ (idle = 5 /\ r = 20) => decay_out.risk = 19

\* Scenario D was computed: idle 5 minutes at 0.20 returned 0.19
C12_Witness ==
    /\ decay_args = [current_risk |-> 20, last_activity_at |-> 0, utcnow |-> 5]
    /\ decay_out = [done |-> TRUE, risk |-> 19]

\* C13: each apply_decay call yields a risk_score less than or equal to the
\* risk_score before the call.
C13_DecayOnlyReduces ==
    [][last_op'.op = "apply_decay" => session'.risk_score <= session.risk_score]_vars

\* C14: once risk_score is at or above MIN_RISK_FLOOR, no apply_decay,
\* decrease_risk, increase_risk or process_cycle (nor any other operation) brings
\* it below 0.05.
C14_FloorKept ==
    [][session.risk_score >= 5 => session'.risk_score >= 5]_vars

\* a decoy session that had reached 0.60 has decayed down to the floor and
\* apply_decay was called on it again
C14_Witness ==
    /\ session.routing_state = "decoy"
    /\ session.risk_score = 5
    /\ last_op.op = "apply_decay"
    /\ now - session.last_activity_at >= 2

(***************************************************************************)
(* increase_risk and decrease_risk                                         *)
(***************************************************************************)
\* C15: increase_risk(amount, reason) with amount > 0 sets risk_score to
\* min(1.0, risk_score + amount), sets flags['risk_' + reason] when a reason is
\* given, and changes neither routing_state nor last_activity_at.
C15_IncreaseRisk ==
    [][(last_op'.op = "increase_risk" /\ last_op'.args.amount > 0) =>
          /\ session'.risk_score =
                IF session.risk_score + last_op'.args.amount > 100 THEN 100
                ELSE session.risk_score + last_op'.args.amount
          /\ last_op'.args.reason = "behavior_rules" =>
                /\ "risk_behavior_rules" \in DOMAIN session'.flags
                /\ session'.flags["risk_behavior_rules"]
          /\ last_op'.args.reason = "" => session'.flags = session.flags
          /\ session'.routing_state = session.routing_state
          /\ session'.last_activity_at = session.last_activity_at
          /\ session'.created_at = session.created_at]_vars

\* an idle real session went from 0.50 to 0.75 by increase_risk(0.25,
\* "behavior_rules"), crossing the high threshold without being rerouted
C15_Witness ==
    /\ last_op.op = "increase_risk"
    /\ last_op.args = Args(25, "behavior_rules", "")
    /\ session.risk_score = 75
    /\ session.routing_state = "real"
    /\ FlagSet(session.flags, "risk_behavior_rules")
    /\ session.last_activity_at < now

\* C16: increase_risk and decrease_risk called with amount <= 0 leave risk_score,
\* flags, routing_state and the timestamps unchanged; no reason flag is recorded.
C16_NonPositiveNoOp ==
    [][(last_op'.op \in {"increase_risk", "decrease_risk"} /\ last_op'.args.amount <= 0) =>
          session' = session]_vars

\* increase_risk(-0.05, "behavior_rules") was called on a session at 0.25 that
\* has no reason flag
C16_Witness ==
    /\ last_op.op = "increase_risk"
    /\ last_op.args = Args(0 - 5, "behavior_rules", "")
    /\ session.risk_score = 25
    /\ ~FlagSet(session.flags, "risk_behavior_rules")

\* C17: after decrease_risk(amount) with amount > 0 the risk_score is at least
\* LOW_RISK_THRESHOLD, and increase_risk(amount) followed immediately by
\* decrease_risk(amount) never leaves it below 0.30.
C17_DecreaseFloor ==
    [][/\ (last_op'.op = "decrease_risk" /\ last_op'.args.amount > 0) =>
              session'.risk_score >= 30
       /\ \A amount \in Amounts : amount > 0 =>
              decrease_risk(increase_risk(session, amount, ""), amount).risk_score >= 30]_vars

\* decrease_risk(1.0) was called right after increase_risk(1.0) and left 0.30
C17_Witness ==
    /\ last_op.op = "decrease_risk"
    /\ last_op.args.amount = 100
    /\ session.risk_score = 30
    /\ session = decrease_risk(increase_risk(SessionState(0), 100, ""), 100)

(***************************************************************************)
(* Canaries                                                                *)
(***************************************************************************)
\* the page values that are an integer above 100
C18_DeepPages == {"101", " 101 ", "1000"}

\* the registry entries whose paths contain the request path
C18_Matches ==
    {i \in 1..Len(CANARY_ACTIONS) :
        \E k \in 1..Len(CANARY_ACTIONS[i].paths) :
            CANARY_ACTIONS[i].paths[k] = canary_args.request_path}

C19_Flag(name) ==
    CASE name = "hidden_export_endpoint" -> "risk_canary_hidden_export_endpoint"
      [] name = "privilege_probe" -> "risk_canary_privilege_probe"
      [] name = "deep_pagination_probe" -> "risk_canary_deep_pagination_probe"

\* C19: apply_canary_impact raises risk_score to min(1.0, risk_score +
\* canary.risk_impact) and sets flags['risk_canary_<name>']; routing_state is
\* unchanged.
C19_CanaryImpact ==
    [][last_op'.op = "apply_canary_impact" =>
          /\ \E i \in 1..Len(CANARY_ACTIONS) :
                /\ CANARY_ACTIONS[i].name = last_op'.args.canary
                /\ session'.risk_score =
                      IF session.risk_score + CANARY_ACTIONS[i].risk_impact > 100 THEN 100
                      ELSE session.risk_score + CANARY_ACTIONS[i].risk_impact
          /\ C19_Flag(last_op'.args.canary) \in DOMAIN session'.flags
          /\ session'.flags[C19_Flag(last_op'.args.canary)]
          /\ session'.routing_state = session.routing_state]_vars

\* the privilege probe took a real session to 0.60 or more and left it on the
\* real backend with its flag set
C19_Witness ==
    /\ last_op.op = "apply_canary_impact"
    /\ last_op.args.canary = "privilege_probe"
    /\ session.risk_score >= 60
    /\ session.routing_state = "real"
    /\ FlagSet(session.flags, "risk_canary_privilege_probe")

(***************************************************************************)
(* Concurrent requests of one session                                      *)
(***************************************************************************)
\* C20: when the requests have finished, the session's risk_score, flags and
\* routing_state are those some sequential order of the calls leaves: no risk
\* increment is lost and no routing transition is missed.
C20_Linearizable ==
    (\A th \in Threads : threads[th].pc = "done") =>
        \E s \in SequentialOutcomes :
            /\ session.risk_score = s.risk_score
            /\ session.flags = s.flags
            /\ session.routing_state = s.routing_state

(***************************************************************************)
(* Degenerate snapshots                                                    *)
(***************************************************************************)
\* C26: an empty snapshot yields an empty feature map; a non-empty snapshot with
\* zero or one timestamp yields requests_per_second = session_duration =
\* interval_mean = interval_variance = 0; interval_variance is 0 whenever fewer
\* than 3 timestamps exist.
C26_DegenerateSnapshots ==
    stage # "snapshot" =>
        /\ snapshot = EmptySnapshot => features = <<>>
        /\ snapshot # EmptySnapshot =>
              /\ DOMAIN features =
                    {"total_requests", "requests_per_second", "session_duration",
                     "interval_mean", "interval_variance", "error_rate",
                     "sensitive_ratio", "route_diversity"}
              /\ Len(snapshot.request_timestamps) <= 1 =>
                    /\ features.requests_per_second[1] = 0
                    /\ features.session_duration[1] = 0
                    /\ features.interval_mean[1] = 0
                    /\ features.interval_variance[1] = 0
              /\ Len(snapshot.request_timestamps) < 3 =>
                    features.interval_variance[1] = 0
              /\ \A k \in DOMAIN features : features[k][2] > 0

\* a snapshot of 16 requests with a single timestamp was extracted
C26_Witness ==
    /\ stage = "features"
    /\ snapshot # EmptySnapshot
    /\ snapshot.total_requests = 16
    /\ snapshot.request_timestamps = <<7>>
    /\ features.requests_per_second = Zero

\* C27: for every snapshot with total_requests = 0, whatever its other counters
\* and timestamps, extract returns error_rate = sensitive_ratio = route_diversity
\* = 0 and requests_per_second = 0.
C27_ZeroRequests ==
    (stage # "snapshot" /\ snapshot # EmptySnapshot /\ snapshot.total_requests = 0) =>
        /\ features.error_rate[1] = 0
        /\ features.sensitive_ratio[1] = 0
        /\ features.route_diversity[1] = 0
        /\ features.requests_per_second[1] = 0
        /\ features.total_requests[1] = 0

\* a snapshot with no requests but 9 errors, 6 sensitive hits, 35 unique routes
\* and 25 timestamps was extracted
C27_Witness ==
    /\ stage = "features"
    /\ snapshot # EmptySnapshot
    /\ snapshot.total_requests = 0
    /\ snapshot.error_count = 9
    /\ snapshot.sensitive_route_hits = 6
    /\ snapshot.unique_route_count = 35
    /\ Len(snapshot.request_timestamps) = ScenarioPoints
    /\ features.error_rate = Zero

(***************************************************************************)
(* Flags                                                                   *)
(***************************************************************************)
\* C29: a flag that is present with value true stays present with value true
\* under every SessionManager operation.
C29_FlagsAppendOnly ==
    [][\A k \in DOMAIN session.flags :
          session.flags[k] => (k \in DOMAIN session'.flags /\ session'.flags[k])]_vars

\* a session carrying a reason flag was routed to the decoy and both flags are set
C29_Witness ==
    /\ last_op.op = "evaluate_routing"
    /\ FlagSet(session.flags, "risk_behavior_rules")
    /\ FlagSet(session.flags, "routed_to_decoy")

(***************************************************************************)
(* Behaviour collector                                                     *)
(***************************************************************************)
\* the tasks inside a critical section of the SessionBehavior stored under sid
C21_InCriticalSection(sid) ==
    {t \in TaskIds :
        /\ tasks[t].pc \in {"collect_locked", "snapshot_locked", "all_locked"}
        /\ tasks[t].session_id = sid
        /\ Live(t)}

\* the collect_request calls on sid that have started and not yet updated
C21_InFlight(sid) ==
    {t \in TaskIds :
        /\ tasks[t].op = "collect_request"
        /\ tasks[t].session_id = sid
        /\ tasks[t].pc \notin {"idle", "done"}}

\* the properties of C21 that hold of a single state of the collector
C21_State(behaviors) ==
    \A sid \in DOMAIN behaviors :
        /\ behaviors[sid].total_requests + Cardinality(C21_InFlight(sid)) = calls[sid]
        /\ Cardinality(C21_InCriticalSection(sid)) <= 1
        /\ \A t \in C21_InCriticalSection(sid) : behaviors[sid]._lock = t
        /\ behaviors[sid]._lock # 0 => C21_InCriticalSection(sid) # {}

\* C21: without eviction total_requests never decreases and, once all
\* collect_request calls on a session id have completed, equals their number; the
\* counters are only changed by the task holding the session's lock, and at most
\* one task is inside a critical section of one SessionBehavior.
C21_NoLostUpdates ==
    [][/\ C21_State(_session_behaviors)
       /\ \A sid \in DOMAIN _session_behaviors \cap DOMAIN _session_behaviors' :
             _session_behaviors'[sid].incarnation = _session_behaviors[sid].incarnation =>
                /\ _session_behaviors'[sid].total_requests
                      >= _session_behaviors[sid].total_requests
                /\ _session_behaviors'[sid].total_requests
                      # _session_behaviors[sid].total_requests =>
                      _session_behaviors[sid]._lock # 0]_vars

\* MaxRequests calls on session A have completed and all were counted
C21_Witness ==
    /\ "A" \in DOMAIN _session_behaviors
    /\ _session_behaviors["A"].total_requests = MaxRequests
    /\ calls["A"] = MaxRequests
    /\ running = 0
    /\ \A t \in TaskIds : tasks[t].pc = "idle"

\* C22: request_timestamps never holds more than the configured capacity N, and
\* once more than N requests were recorded it holds exactly the N most recently
\* recorded timestamps, in arrival order.
C22_BoundedBuffer ==
    \A sid \in DOMAIN _session_behaviors :
        LET b == _session_behaviors[sid]
            N == max_timestamps_per_session
            n == Len(b.arrivals)
        IN  /\ Len(b.request_timestamps) <= N
            /\ n <= N => b.request_timestamps = b.arrivals
            /\ n > N => b.request_timestamps = SubSeq(b.arrivals, n - N + 1, n)

\* one request more than the capacity was recorded, the last one with an older
\* timestamp than the others, and the first one was dropped
C22_Witness ==
    \E sid \in DOMAIN _session_behaviors :
        LET b == _session_behaviors[sid]
        IN  /\ Len(b.arrivals) = max_timestamps_per_session + 1
            /\ b.request_timestamps = Tail(b.arrivals)
            /\ b.arrivals[Len(b.arrivals)] < b.arrivals[1]

\* C23: cleanup_old_sessions(max_age) removes every session whose last_updated
\* is older than max_age at the time of the call and no other; the remaining
\* sessions are exactly those not older than max_age, unchanged.
C23_Cleanup ==
    [][\A t \in TaskIds :
          (tasks[t].pc = "cleanup_locked" /\ tasks'[t].pc = "done") =>
              /\ DOMAIN _session_behaviors' =
                    {sid \in DOMAIN _session_behaviors :
                        tasks[t].current_time - _session_behaviors[sid].last_updated
                            <= tasks[t].max_age_seconds}
              /\ \A sid \in DOMAIN _session_behaviors' :
                    _session_behaviors'[sid] = _session_behaviors[sid]]_vars

\* a cleanup with max_age 1 removed a session 2 seconds old and kept one that
\* is exactly 1 second old
C23_Witness ==
    \E t \in TaskIds :
        /\ tasks[t].op = "cleanup_old_sessions"
        /\ tasks[t].pc = "done"
        /\ tasks[t].max_age_seconds = 1
        /\ tasks[t].selected = {"A"}
        /\ DOMAIN _session_behaviors = {"B"}
        /\ tasks[t].current_time - _session_behaviors["B"].last_updated = 1

C25_SnapshotStep(t) ==
    /\ tasks'[t] # tasks[t]
    /\ tasks'[t].op = "get_session_snapshot"

\* C25: get_session_snapshot for a session id that is not tracked returns an
\* empty result, does not raise and does not create a behaviour record; no step of
\* get_session_snapshot changes the set of tracked sessions.
C25_UnknownSnapshot ==
    [][\A t \in TaskIds :
          C25_SnapshotStep(t) =>
              /\ DOMAIN _session_behaviors' = DOMAIN _session_behaviors
              /\ created' = created
              /\ (tasks[t].pc = "idle"
                    /\ tasks'[t].session_id \notin DOMAIN _session_behaviors) =>
                       /\ tasks'[t].pc = "done"
                       /\ tasks'[t].result = <<>>
                       /\ ~tasks'[t].raised
                       /\ _session_behaviors' = _session_behaviors]_vars

\* a snapshot of an evicted session id returned {} while another session is tracked
C25_Witness ==
    \E t \in TaskIds :
        /\ tasks[t].op = "get_session_snapshot"
        /\ tasks[t].pc = "done"
        /\ tasks[t].session_id = "A"
        /\ tasks[t].result = <<>>
        /\ created["A"] = 1
        /\ DOMAIN _session_behaviors = {"B"}

\* C28: startup fails exactly when 0 <= LOW_RISK_THRESHOLD < HIGH_RISK_THRESHOLD
\* <= 1 does not hold: the application is up only with valid thresholds, it fails
\* to start only with invalid ones, and no routing decision is taken with invalid
\* thresholds.
C28_FailFast ==
    LET valid == validate_thresholds(thresholds.low, thresholds.high) = "ok"
    IN  /\ startup = "up" => valid
        /\ startup \notin {"none", "down", "up"} => ~valid
        /\ (startup # "none" /\ policy_out # NoDecision) => valid

\* the coroutine frame of task t in a step it takes: its frame after the step
\* when the step starts it, before the step otherwise
C30_Frame(t) == IF tasks[t].pc = "idle" THEN tasks'[t] ELSE tasks[t]

\* C30: a step of collect_request, get_session_snapshot or clear_session for one
\* session id leaves the record of every other session id, and whether it is
\* tracked, unchanged; a call on the SessionManager of one session leaves the
\* SessionState of every other session unchanged.
C30_Isolation ==
    [][/\ \A t \in TaskIds :
             (/\ tasks'[t] # tasks[t]
              /\ C30_Frame(t).op \in {"collect_request", "get_session_snapshot",
                                      "clear_session"}) =>
                 \A B \in SessionIds \ {C30_Frame(t).session_id} :
                     /\ B \in DOMAIN _session_behaviors' <=> B \in DOMAIN _session_behaviors
                     /\ B \in DOMAIN _session_behaviors =>
                            _session_behaviors'[B] = _session_behaviors[B]
       /\ sessions' # sessions =>
             \A B \in DOMAIN sessions.states \ {sessions'.last} :
                 SessionOf(sessions', B) = SessionOf(sessions, B)]_vars

\* session B was recorded once, then a request of session A was recorded and B's
\* record still holds its one request
C30_Witness ==
    /\ DOMAIN _session_behaviors = {"A", "B"}
    /\ _session_behaviors["B"].total_requests = 1
    /\ Len(_session_behaviors["B"].request_timestamps) = 1
    /\ _session_behaviors["A"].total_requests = 1
    /\ \E t \in TaskIds :
          /\ tasks[t].op = "collect_request"
          /\ tasks[t].session_id = "A"
          /\ tasks[t].pc = "done"

\* the manager of A raised A's risk twice and set its flag while the SessionState
\* of B is as it was built
C30_ManagerCase ==
    /\ DOMAIN sessions.states = {"A", "B"}
    /\ sessions.last = "A"
    /\ SessionOf(sessions, "A").risk_score = 50
    /\ DOMAIN SessionOf(sessions, "A").flags # {}
    /\ SessionOf(sessions, "B").risk_score = 0
    /\ DOMAIN SessionOf(sessions, "B").flags = {}

\* the route is a configured sensitive prefix followed by any text
C31_HasSensitivePrefix(route) ==
    \E n \in 0..Len(route) : SubSeq(route, 1, n) \in _sensitive_route_prefixes

\* C31: collect_request adds exactly one to error_count when response_status is
\* in [400, 600) and leaves it unchanged otherwise (below 400, 600 or above, no
\* status); it adds exactly one to sensitive_route_hits when the route starts with
\* a configured sensitive prefix and leaves it unchanged otherwise; last_updated
\* becomes the timestamp of the request.
C31_Counters ==
    record_out.done =>
        LET a == record_args
            status == a.response_status
            error == status # NoStatus /\ status >= 400 /\ status < 600
        IN  /\ record_out.b.error_count =
                   a.b.error_count + (IF error THEN 1 ELSE 0)
            /\ record_out.b.sensitive_route_hits =
                   a.b.sensitive_route_hits
                      + (IF C31_HasSensitivePrefix(a.route) THEN 1 ELSE 0)
            /\ record_out.b.last_updated = a.timestamp

\* a request with status 600 on "/adminx", older than the record's last update,
\* counted as a sensitive hit and not as an error
C31_Witness ==
    /\ record_out.done
    /\ record_args.response_status = 600
    /\ record_args.route = <<"/", "a", "d", "m", "i", "n", "x">>
    /\ record_args.b.last_updated = 3
    /\ record_args.timestamp = 1
    /\ record_out.b.error_count = 1
    /\ record_out.b.sensitive_route_hits = 2
    /\ record_out.b.last_updated = 1

\* C32: decrease_risk never raises risk: the risk_score after decrease_risk(amount)
\* is less than or equal to the risk_score before the call, for every amount.
C32_DecreaseNeverRaises ==
    [][last_op'.op = "decrease_risk" => session'.risk_score <= session.risk_score]_vars

\* C33: for a session on "real" with risk_score < 0.60, decrease_risk and
\* apply_decay leave risk_score below 0.60, and an evaluate_routing directly after
\* either of them keeps the session on "real".
C33_LoweringNeverEscalates ==
    [][(/\ session.routing_state = "real"
        /\ session.risk_score < 60
        /\ last_op'.op \in {"decrease_risk", "apply_decay"}) =>
           /\ session'.risk_score < 60
           /\ session'.routing_state = "real"
           /\ evaluate_routing(session').routing_state = "real"
           /\ routing_decision(session').route = "real"]_vars

\* decrease_risk with a positive amount left a session on "real" at the floor 0.30
C33_Witness ==
    /\ last_op.op = "decrease_risk"
    /\ last_op.args.amount > 0
    /\ session.routing_state = "real"
    /\ session.risk_score = 30
    /\ evaluate_routing(session).routing_state = "real"

\* f"risk_{reason}" on a reason given by its characters
C34_ReasonFlag(reason) == <<"r", "i", "s", "k", "_">> \o reason

\* "routed_to_decoy", and reasons a caller may pass: "", "routed_to_decoy",
\* "outed_to_decoy", "behavior_rules"
C34_RoutedToDecoy ==
    <<"r", "o", "u", "t", "e", "d", "_", "t", "o", "_", "d", "e", "c", "o", "y">>

C34_Reasons ==
    {<<>>, C34_RoutedToDecoy, Tail(C34_RoutedToDecoy),
     <<"b", "e", "h", "a", "v", "i", "o", "r", "_", "r", "u", "l", "e", "s">>}

\* C34: in every state a session created on "real" with empty flags reaches
\* through SessionManager operations, flags["routed_to_decoy"] is true if and only
\* if routing_state is "decoy"; the flag of an increase_risk reason is never
\* "routed_to_decoy".
C34_AuditFlag ==
    /\ FlagSet(session.flags, "routed_to_decoy") <=> session.routing_state = "decoy"
    /\ \A reason \in Reasons \ {""} : RiskFlag(reason) # "routed_to_decoy"
    /\ \A reason \in C34_Reasons : C34_ReasonFlag(reason) # C34_RoutedToDecoy

\* a session that was escalated holds the audit flag next to a reason flag
C34_Witness ==
    /\ session.routing_state = "decoy"
    /\ FlagSet(session.flags, "routed_to_decoy")
    /\ FlagSet(session.flags, "risk_behavior_rules")
    /\ last_op.op = "evaluate_routing"

\* the ratio features extract computes from a snapshot lie in [0, 1]
C35_RatiosInRange(snap) ==
    LET f == _extract_behavioral_ratios(snap)
    IN  \A key \in {"error_rate", "sensitive_ratio", "route_diversity"} :
            /\ f[key][2] > 0
            /\ ~RatLt(f[key], Zero)
            /\ ~RatGt(f[key], <<1, 1>>)

\* C35: in every reachable SessionBehavior error_count, sensitive_route_hits and
\* the number of unique routes are at most total_requests, and for every snapshot
\* the collector produces extract yields error_rate, sensitive_ratio and
\* route_diversity in [0, 1].
C35_CounterBounds ==
    /\ \A sid \in DOMAIN _session_behaviors :
          LET b == _session_behaviors[sid]
          IN  /\ 0 <= b.error_count /\ b.error_count <= b.total_requests
              /\ 0 <= b.sensitive_route_hits /\ b.sensitive_route_hits <= b.total_requests
              /\ Cardinality(b.unique_routes) <= b.total_requests
              /\ C35_RatiosInRange(snapshot_of(sid, b))
    /\ \A t \in TaskIds :
          (/\ tasks[t].op = "get_session_snapshot"
           /\ tasks[t].pc = "done"
           /\ DOMAIN tasks[t].result # {}) => C35_RatiosInRange(tasks[t].result)

\* a snapshot of a session whose two requests were both errors on one sensitive
\* route: error_rate and sensitive_ratio are 1, route_diversity is 1/2
C35_Witness ==
    \E t \in TaskIds :
        /\ tasks[t].op = "get_session_snapshot"
        /\ tasks[t].pc = "done"
        /\ DOMAIN tasks[t].result # {}
        /\ tasks[t].result.total_requests = 2
        /\ tasks[t].result.error_count = 2
        /\ tasks[t].result.sensitive_route_hits = 2
        /\ tasks[t].result.unique_route_count = 1
        /\ RatEq(_extract_behavioral_ratios(tasks[t].result).route_diversity, <<1, 2>>)

\* C36: in every snapshot the collector returns, timestamp_count equals
\* min(total_requests, N) for the configured capacity N, and so does the buffer
\* of every stored record: total_requests keeps counting once the buffer is full.
C36_TimestampCount ==
    /\ \A sid \in DOMAIN _session_behaviors :
          LET snap == snapshot_of(sid, _session_behaviors[sid])
          IN  /\ snap.timestamp_count = Min(snap.total_requests, max_timestamps_per_session)
              /\ snap.timestamp_count = Len(snap.request_timestamps)
    /\ \A t \in TaskIds :
          (/\ tasks[t].op = "get_session_snapshot"
           /\ tasks[t].pc = "done"
           /\ DOMAIN tasks[t].result # {}) =>
              /\ tasks[t].result.timestamp_count =
                     Min(tasks[t].result.total_requests, tasks[t].result.max_timestamps_cap)
              /\ tasks[t].result.max_timestamps_cap = max_timestamps_per_session
    /\ \A t \in TaskIds :
          (tasks[t].op = "get_all_session_snapshots" /\ tasks[t].pc = "done") =>
              \A sid \in DOMAIN tasks[t].result :
                  tasks[t].result[sid].timestamp_count =
                      Min(tasks[t].result[sid].total_requests, max_timestamps_per_session)

\* a snapshot returned after one request more than the capacity
C36_Witness ==
    \E t \in TaskIds :
        /\ tasks[t].op = "get_session_snapshot"
        /\ tasks[t].pc = "done"
        /\ DOMAIN tasks[t].result # {}
        /\ tasks[t].result.total_requests = max_timestamps_per_session + 1
        /\ tasks[t].result.timestamp_count = max_timestamps_per_session

\* C37: detect_canary_hit returns the deep_pagination_probe entry only for a
\* request whose page query parameter exceeds 100; a request without a page
\* parameter, or with page <= 100, is never reported as deep pagination.
C37_DeepPaginationOnly ==
    (canary_out.done /\ canary_out.canary.name = "deep_pagination_probe") =>
        LET params == canary_args.query_params
        IN  /\ "page" \in DOMAIN params
            /\ int(params.page).ok
            /\ int(params.page).value > 100

====
